---- MODULE Spec2Model ----
(***************************************************************************)
(* Model of the 1688 product-page crawler (src/src/crawler.py).            *)
(*                                                                         *)
(* The browser is an external collaborator.  What a selector resolves to   *)
(* is an input: every step that reads the live document draws the answers  *)
(* of the selectors it may touch from a small set.  Calls made on the      *)
(* automation surface are recorded, in order, in `trace`.                  *)
(*                                                                         *)
(* Text is a sequence of characters.  A character is a one-letter string;  *)
(* the two characters of the free-shipping marker are written "B" and "Y". *)
(***************************************************************************)
EXTENDS Integers, Sequences, FiniteSets, TLC

VARIABLES
    pc,          \* position: "idle", "navigate", "waiting", "shipping", "fields", "done";
                 \* "batch" between two fetches of fetch_products
    op,          \* the function that was called ("" while idle)
    arg,         \* the fake document handed to a directly called function
    result,      \* outcome of the call: [exc, val]
    trace,       \* calls made on the browser session, time.sleep included
    own_driver,  \* fetch_item: the session was created by fetch_item
    title,       \* fetch_item: local variable title
    shipping,    \* fetch_item: locals <<shipping_price, shipping_text>>
    rounds,      \* fetch_item: iterations of the retry loop started so far
    titleCalls,  \* fetch_item: values returned by _fetch_title, in call order
    current_url, \* the session's current URL
    cookieCalls, \* the dicts passed to driver.add_cookie, in call order
    cookie_file, \* the kind of cookies.json _load_cookies met ("" once it is over)
    batch,       \* CrawlerService: the batch being fetched
    quits        \* number of driver.quit() calls

vars ==
    <<pc, op, arg, result, trace, own_driver, title, shipping, rounds, titleCalls,
      current_url, cookieCalls, cookie_file, batch, quits>>

(***************************************************************************)
(* Bounds of the model.                                                    *)
(***************************************************************************)
MaxPresent == 2    \* selectors of one chain that match anything on one page
MaxItems == 2      \* SKU item elements inside one schema wrapper
MaxCookies == 2    \* cookies in the cookie store
MaxRows == 2       \* rows of a table
MaxUrls == 2       \* URLs of one batch
MaxText == 3       \* characters of a text handed to a parser

(***************************************************************************)
(* Python values.                                                          *)
(***************************************************************************)
None == <<>>                 \* Optional[...]: None is <<>>, a value v is <<v>>
Some(v) == <<v>>
NoExc == ""                  \* no exception was raised

Min(a, b) == IF a < b THEN a ELSE b

\* str.strip() / re \s : the whitespace characters
Whitespace == {" ", "\n"}
Digits == {"0", "1", "2", "3", "4", "5", "6", "7", "8", "9"}
DigitVal(c) ==
    CASE c = "0" -> 0 [] c = "1" -> 1 [] c = "2" -> 2 [] c = "3" -> 3
      [] c = "4" -> 4 [] c = "5" -> 5 [] c = "6" -> 6 [] c = "7" -> 7
      [] c = "8" -> 8 [] c = "9" -> 9

RECURSIVE LStrip(_)
LStrip(s) == IF s # <<>> /\ Head(s) \in Whitespace THEN LStrip(Tail(s)) ELSE s

RECURSIVE RStrip(_)
RStrip(s) ==
    IF s # <<>> /\ s[Len(s)] \in Whitespace THEN RStrip(SubSeq(s, 1, Len(s) - 1)) ELSE s

\* str.strip()
Strip(s) == RStrip(LStrip(s))

\* needle in text  (contiguous subsequence)
Contains(text, needle) ==
    \E i \in 1..(Len(text) - Len(needle) + 1) :
        SubSeq(text, i, i + Len(needle) - 1) = needle

\* the longest run of digits of s that starts at position i (may be empty)
RECURSIVE DigitRun(_, _)
DigitRun(s, i) ==
    IF i <= Len(s) /\ s[i] \in Digits THEN <<s[i]>> \o DigitRun(s, i + 1) ELSE <<>>

\* int("...") of a run of digits; the empty run counts 0
RECURSIVE IntOf(_)
IntOf(ds) ==
    IF ds = <<>> THEN 0 ELSE 10 * IntOf(SubSeq(ds, 1, Len(ds) - 1)) + DigitVal(ds[Len(ds)])

RECURSIVE Pow10(_)
Pow10(n) == IF n = 0 THEN 1 ELSE 10 * Pow10(n - 1)

\* a float is kept as an integer number of units of 1/PriceScale, which is
\* exact for the texts of the model: at most FracDigits digits follow a point
FracDigits == 3
PriceScale == Pow10(FracDigits)

FreeShippingMarker == <<"B", "Y">>

\* re.search(r"(\d+[\.,]?\d*)", text): position of the first digit, 0 if none
FirstDigit(text) ==
    IF \E i \in 1..Len(text) : text[i] \in Digits
    THEN CHOOSE i \in 1..Len(text) :
            text[i] \in Digits /\ \A j \in 1..(i - 1) : text[j] \notin Digits
    ELSE 0

\* float(m.group(1).replace(',', '')) for the match that starts at position i
PriceMatchValue(text, i) ==
    LET d1  == DigitRun(text, i)
        j   == i + Len(d1)
        sep == IF j <= Len(text) /\ text[j] \in {".", ","} THEN text[j] ELSE ""
        d2  == IF sep = "" THEN <<>> ELSE DigitRun(text, j + 1)
    IN  IF sep = "."
        THEN IntOf(d1) * PriceScale
             + (IntOf(SubSeq(d2, 1, Min(Len(d2), FracDigits)))
                * Pow10(FracDigits - Min(Len(d2), FracDigits)))
        ELSE IntOf(d1 \o d2) * PriceScale

\* m.group(1).replace(',', '') for the match that starts at position i: the
\* text handed to float()
PriceMatchText(text, i) ==
    LET d1  == DigitRun(text, i)
        j   == i + Len(d1)
        sep == IF j <= Len(text) /\ text[j] \in {".", ","} THEN text[j] ELSE ""
        d2  == IF sep = "" THEN <<>> ELSE DigitRun(text, j + 1)
    IN  d1 \o (IF sep = "." THEN <<".">> ELSE <<>>) \o d2

\* float(s) raises ValueError unless s is digits with at most one point and
\* at least one digit (no sign, exponent or blank occurs in a match)
FloatAccepts(s) ==
    /\ \E i \in 1..Len(s) : s[i] \in Digits
    /\ \A i \in 1..Len(s) : s[i] \in Digits \cup {"."}
    /\ Cardinality({i \in 1..Len(s) : s[i] = "."}) <= 1
\* int(s) raises ValueError unless s is a run of digits
IntAccepts(s) == s # <<>> /\ \A i \in 1..Len(s) : s[i] \in Digits

\* a parser whose pattern takes a leading minus sign into the number
_parse_price_signed(text) ==
    IF text = <<>> THEN None
    ELSE IF Contains(text, FreeShippingMarker) THEN Some(0)
    ELSE IF FirstDigit(text) = 0 THEN None
    ELSE IF FirstDigit(text) > 1 /\ text[FirstDigit(text) - 1] = "-"
         THEN Some(0 - PriceMatchValue(text, FirstDigit(text)))
    ELSE Some(PriceMatchValue(text, FirstDigit(text)))

_parse_price(text) ==
    IF text = <<>> THEN None
    ELSE IF Contains(text, FreeShippingMarker) THEN Some(0)
    ELSE IF FirstDigit(text) = 0 THEN None
    ELSE IF ~FloatAccepts(PriceMatchText(text, FirstDigit(text))) THEN None
    ELSE Some(PriceMatchValue(text, FirstDigit(text)))

\* a parser that reads one digit only
_parse_stock_one_digit(text) ==
    IF text = <<>> THEN 0
    ELSE IF FirstDigit(text) = 0 THEN 0
    ELSE DigitVal(text[FirstDigit(text)])

_parse_stock(text) ==
    IF text = <<>> THEN 0
    ELSE IF FirstDigit(text) = 0 THEN 0
    ELSE IF ~IntAccepts(DigitRun(text, FirstDigit(text))) THEN 0
    ELSE IntOf(DigitRun(text, FirstDigit(text)))

(***************************************************************************)
(* Configuration constants  (crawler.py 22-76).                            *)
(***************************************************************************)
PAGE_SCHEMAS == <<
    [name        |-> "Standard_Retail",
     sku_wrapper |-> "css:#sku-count-widget-wrapper",
     sku_item    |-> "css:.sku-item-wrapper",
     sku_name    |-> "css:.sku-item-name",
     price       |-> "css:.discountPrice-price",
     stock       |-> "css:.sku-item-sale-num"],
    [name        |-> "Expand_View_Template",
     sku_wrapper |-> "css:.expand-view-list",
     sku_item    |-> "css:.expand-view-item",
     sku_name    |-> "css:.item-label",
     price       |-> "css:.item-price-stock",
     stock       |-> "css:od-text[i18n='sku-stock']"] >>

\* The dictionary has five keys; there is no "category" entry.  The last two
\* string literals of "single_price" have no comma between them, so Python
\* joins them into one selector.
COMMON_SELECTORS ==
    [product_title |->
        << "css:div.title-content h1", "css:div.title-text", "css:h1.d-title",
           "css:.mod-detail-title h1" >>,
     shipping |->
        << "css:em.service-item", "css:.logistics-express-price",
           "css:.logistics-cost", "css:.postage-cost", "css:.freight-cost",
           "css:.service-item" >>,
     single_price |->
        << "css:.discountPrice-price", "css:.price-text",
           "css:.offer-current-price .value", "css:span.price",
           "css:.item-price-stock",
           "css:.discount-price .valuecss:.discount-price .value" >>,
     attributes_table |->
        << "css:#productAttributes table",
           "css:.od-collapse-module[data-spm-anchor-id*='productAttributes'] table",
           "css:div[data-spm-anchor-id*='productAttributes'] table",
           "css:.ant-descriptions-view table" >>,
     packaging_table |->
        << "css:#productPackInfo table",
           "css:[data-module='od_product_pack_info'] table" >>]

\* names bound at module level by the import statements (crawler.py 5-15)
ModuleImports ==
    {"os", "re", "datetime", "Dict", "List", "Optional", "Tuple", "Any",
     "webdriver", "By", "Service", "EC", "WebDriverWait", "GeckoDriverManager"}

(***************************************************************************)
(* The fake document.  A lookup either throws or yields text; an event of  *)
(* the trace is <<call, selector chain, position in the chain>>.           *)
(***************************************************************************)
Throw == [ok |-> FALSE, text |-> <<>>]
Found(t) == [ok |-> TRUE, text |-> t]

Ev(call, chain, i) == <<call, chain, i>>

\* textContent of the elements a page may show
TitleTexts == {<<>>, <<" ">>, <<"T">>, <<" ", "U", "\n">>}
TitleOutcomes == {Throw} \cup {Found(t) : t \in TitleTexts}
TitleDoms == [1..Len(COMMON_SELECTORS.product_title) -> TitleOutcomes]

\* for sel in COMMON_SELECTORS["product_title"], from candidate i on
RECURSIVE FetchTitleFrom(_, _)
FetchTitleFrom(dom, i) ==
    IF i > Len(COMMON_SELECTORS.product_title)
    THEN [exc |-> NoExc, val |-> <<>>, log |-> <<>>]
    ELSE LET ev   == Ev("find_element", "product_title", i)
             text == Strip(dom[i].text)
         IN  IF dom[i].ok /\ text # <<>>
             THEN [exc |-> NoExc, val |-> text, log |-> <<ev>>]
             ELSE LET r == FetchTitleFrom(dom, i + 1)
                  IN  [exc |-> NoExc, val |-> r.val, log |-> <<ev>> \o r.log]

_fetch_title(dom) == FetchTitleFrom(dom, 1)

\* sequences over S of length 0..n
SeqsUpTo(S, n) == UNION {[1..k -> S] : k \in 0..n}

\* the documents in which the selectors at the positions P of a chain of n
\* candidates answer something from Answers, and all others answer `none`
SparseDoms(n, Answers, none) ==
    UNION { { [i \in 1..n |-> IF i \in P THEN f[i] ELSE none] : f \in [P -> Answers] }
            : P \in {Q \in SUBSET (1..n) : Cardinality(Q) <= MaxPresent} }

\* find_elements: throws, or yields elements whose textContent may throw
NoElems == [ok |-> TRUE, elems |-> <<>>]
ThrowElems == [ok |-> FALSE, elems |-> <<>>]
Elems(es) == [ok |-> TRUE, elems |-> es]
ShippingAnswers ==
    { ThrowElems,
      Elems(<<Throw>>),
      Elems(<<Found(<<"x">>)>>),
      Elems(<<Found(<<" ", "5">>)>>),
      Elems(<<Found(<<"B", "Y", "6">>)>>),
      Elems(<<Found(<<" ">>), Found(<<"7", " ">>)>>),
      Elems(<<Throw, Found(<<"8">>)>>) }
ShippingDoms == SparseDoms(Len(COMMON_SELECTORS.shipping), ShippingAnswers, NoElems)

\* for el in elements, from element j on: <<"hit", price, txt>>, <<"throw">>
\* when a textContent read throws, <<"miss">> when the elements run out
RECURSIVE ShippingElems(_, _)
ShippingElems(elems, j) ==
    IF j > Len(elems) THEN <<"miss">>
    ELSE IF ~elems[j].ok THEN <<"throw">>
    ELSE LET txt == Strip(elems[j].text)
         IN  IF txt = <<>> THEN ShippingElems(elems, j + 1)
             ELSE IF _parse_price(txt) # None
                  THEN <<"hit", _parse_price(txt)[1], txt>>
                  ELSE ShippingElems(elems, j + 1)

\* for sel in COMMON_SELECTORS["shipping"], from candidate i on
RECURSIVE FetchShippingFrom(_, _)
FetchShippingFrom(dom, i) ==
    IF i > Len(COMMON_SELECTORS.shipping)
    THEN [exc |-> NoExc, val |-> <<0, <<>>>>, log |-> <<>>]
    ELSE LET ev == Ev("find_elements", "shipping", i)
             e  == IF dom[i].ok THEN ShippingElems(dom[i].elems, 1) ELSE <<"throw">>
         IN  IF e[1] = "hit"
             THEN [exc |-> NoExc, val |-> <<e[2], e[3]>>, log |-> <<ev>>]
             ELSE LET r == FetchShippingFrom(dom, i + 1)
                  IN  [exc |-> NoExc, val |-> r.val, log |-> <<ev>> \o r.log]

_fetch_shipping(dom) == FetchShippingFrom(dom, 1)

\* re.sub(r'\s+', ' ', text)
RECURSIVE CollapseSpace(_)
CollapseSpace(s) ==
    IF s = <<>> THEN <<>>
    ELSE IF Head(s) \in Whitespace
         THEN <<" ">> \o CollapseSpace(LStrip(s))
         ELSE <<Head(s)>> \o CollapseSpace(Tail(s))

\* what a page shows where a category would be looked up
CategoryTexts == {<<>>, <<"C", " ", "\n", "D">>}
CategoryDoms == [1..1 -> {Throw} \cup {Found(t) : t \in CategoryTexts}]

Unknown == <<"?", "?">>      \* the two-character text "unknown" of line 169

\* for sel in <selectors>, from candidate i on  (lines 158-169)
RECURSIVE FetchCategoryFrom(_, _, _)
FetchCategoryFrom(sels, dom, i) ==
    IF i > Len(sels)
    THEN [exc |-> NoExc, val |-> Unknown, log |-> <<>>]
    ELSE LET ev   == Ev("find_element", "category", i)
             text == CollapseSpace(Strip(dom[i].text))
         IN  IF i \in DOMAIN dom /\ dom[i].ok /\ text # <<>>
             THEN [exc |-> NoExc, val |-> text, log |-> <<ev>>]
             ELSE LET r == FetchCategoryFrom(sels, dom, i + 1)
                  IN  [exc |-> NoExc, val |-> r.val, log |-> <<ev>> \o r.log]

\* COMMON_SELECTORS["category"] is evaluated before the loop and outside the
\* try block: a missing key raises KeyError out of the function
_fetch_category(dom) ==
    IF "category" \in DOMAIN COMMON_SELECTORS
    THEN FetchCategoryFrom(COMMON_SELECTORS["category"], dom, 1)
    ELSE [exc |-> "KeyError", val |-> <<>>, log |-> <<>>]

(***************************************************************************)
(* SKU extraction  (crawler.py 285-374).                                   *)
(***************************************************************************)
DigitChar(d) ==
    CASE d = 0 -> "0" [] d = 1 -> "1" [] d = 2 -> "2" [] d = 3 -> "3"
      [] d = 4 -> "4" [] d = 5 -> "5" [] d = 6 -> "6" [] d = 7 -> "7"
      [] d = 8 -> "8" [] d = 9 -> "9"

\* str(n) for n >= 0
RECURSIVE Str(_)
Str(n) == IF n < 10 THEN <<DigitChar(n)>> ELSE Str(n \div 10) \o <<DigitChar(n % 10)>>

\* f"SKU_{i+1}" for the 0-based index i
PlaceholderName(i) == <<"S", "K", "U", "_">> \o Str(i + 1)

\* an item element: what its name, price and stock lookups answer
ItemOk       == [name |-> Found(<<"N", " ">>), price |-> Found(<<"8">>), stock |-> Found(<<"x", "3">>)]
ItemNoName   == [name |-> Throw, price |-> Found(<<"7", ".", "5">>), stock |-> Found(<<"4">>)]
ItemNoPrice  == [name |-> Found(<<"M">>), price |-> Throw, stock |-> Found(<<"3">>)]
ItemBadPrice == [name |-> Found(<<"M">>), price |-> Found(<<"x">>), stock |-> Found(<<"3">>)]
ItemNoStock  == [name |-> Found(<<"N">>), price |-> Found(<<"8">>), stock |-> Throw]
SampleItems == {ItemOk, ItemNoName, ItemNoPrice, ItemBadPrice, ItemNoStock}

\* one schema's part of the page: the wrapper appears within the wait or the
\* wait times out; find_elements on the wrapper throws or yields the items
WrapperTimeout == [wrapper |-> FALSE, ok |-> FALSE, items |-> <<>>]
ItemsThrow     == [wrapper |-> TRUE, ok |-> FALSE, items |-> <<>>]
SchemaAnswers ==
    {WrapperTimeout, ItemsThrow}
    \cup {[wrapper |-> TRUE, ok |-> TRUE, items |-> is] : is \in SeqsUpTo(SampleItems, MaxItems)}
SchemaDoms == [1..Len(PAGE_SCHEMAS) -> SchemaAnswers]

\* lines 308-337: the dict built for the item at 0-based index i
ParseItem(item, i) ==
    LET p_txt == IF item.price.ok THEN Strip(item.price.text) ELSE <<>>
        s_txt == IF item.stock.ok THEN Strip(item.stock.text) ELSE <<>>
    IN  [name       |-> IF item.name.ok THEN Strip(item.name.text) ELSE PlaceholderName(i),
         price_text |-> p_txt,
         price      |-> _parse_price(p_txt),
         stock_text |-> s_txt,
         stock      |-> _parse_stock(s_txt)]

\* the sub-selector lookups made for one item of schema s
ItemLog(s) ==
    << Ev("find_element", "sku_name", s), Ev("find_element", "price", s),
       Ev("find_element", "stock", s) >>

\* an item loop that skips an item when one of its lookups fails
RECURSIVE ParseItems_dropping(_, _, _)
ParseItems_dropping(items, s, j) ==
    IF j > Len(items) THEN [val |-> <<>>, log |-> <<>>]
    ELSE LET r     == ParseItems_dropping(items, s, j + 1)
             whole == items[j].name.ok /\ items[j].price.ok /\ items[j].stock.ok
         IN  [val |-> (IF whole THEN <<ParseItem(items[j], j - 1)>> ELSE <<>>) \o r.val,
              log |-> ItemLog(s) \o r.log]

\* for i, item_el in enumerate(items), from position j (1-based) on
RECURSIVE ParseItems(_, _, _)
ParseItems(items, s, j) ==
    IF j > Len(items) THEN [val |-> <<>>, log |-> <<>>]
    ELSE LET r == ParseItems(items, s, j + 1)
         IN  [val |-> <<ParseItem(items[j], j - 1)>> \o r.val,
              log |-> ItemLog(s) \o r.log]

\* for schema in PAGE_SCHEMAS, from schema s on
RECURSIVE FetchSkusFrom(_, _)
FetchSkusFrom(dom, s) ==
    IF s > Len(PAGE_SCHEMAS) THEN [exc |-> NoExc, val |-> <<>>, log |-> <<>>]
    ELSE LET wait == <<Ev("wait", "sku_wrapper", s)>>
             find == <<Ev("find_elements", "sku_item", s)>>
             next == FetchSkusFrom(dom, s + 1)
         IN  IF ~dom[s].wrapper
             THEN [exc |-> NoExc, val |-> next.val, log |-> wait \o next.log]
             ELSE IF ~dom[s].ok \/ dom[s].items = <<>>
             THEN [exc |-> NoExc, val |-> next.val, log |-> wait \o find \o next.log]
             ELSE LET r == ParseItems(dom[s].items, s, 1)
                  IN  [exc |-> NoExc, val |-> r.val, log |-> wait \o find \o r.log]

\* a schema loop that does not stop at the first schema with items
RECURSIVE FetchSkusAllFrom(_, _)
FetchSkusAllFrom(dom, s) ==
    IF s > Len(PAGE_SCHEMAS) THEN [exc |-> NoExc, val |-> <<>>, log |-> <<>>]
    ELSE LET wait == <<Ev("wait", "sku_wrapper", s)>>
             find == <<Ev("find_elements", "sku_item", s)>>
             next == FetchSkusAllFrom(dom, s + 1)
         IN  IF ~dom[s].wrapper
             THEN [exc |-> NoExc, val |-> next.val, log |-> wait \o next.log]
             ELSE IF ~dom[s].ok \/ dom[s].items = <<>>
             THEN [exc |-> NoExc, val |-> next.val, log |-> wait \o find \o next.log]
             ELSE LET r == ParseItems(dom[s].items, s, 1)
                  IN  [exc |-> NoExc, val |-> r.val \o next.val,
                       log |-> wait \o find \o r.log \o next.log]

_fetch_skus_all_schemas(dom) == FetchSkusAllFrom(dom, 1)

_fetch_skus_by_schema(dom) == FetchSkusFrom(dom, 1)

\* the single-price chain: find_element throws when nothing matches
PriceTexts == {<<>>, <<"x">>, <<" ", "9", ".", "5">>, <<"B", "Y">>}
PriceDoms ==
    SparseDoms(Len(COMMON_SELECTORS.single_price), {Found(t) : t \in PriceTexts}, Throw)

DefaultSkuName == <<"d", "f">>     \* the text of line 368
DefaultStockText == <<"d">>        \* the text of line 370
DefaultStock == 9999

\* for sel in COMMON_SELECTORS["single_price"], from candidate i on: the
\* <<price_val, price_txt>> the loop ends with
RECURSIVE FallbackFrom(_, _)
FallbackFrom(dom, i) ==
    IF i > Len(COMMON_SELECTORS.single_price)
    THEN [val |-> <<None, <<>>>>, log |-> <<>>]
    ELSE LET ev  == Ev("find_element", "single_price", i)
             txt == Strip(dom[i].text)
         IN  IF dom[i].ok /\ _parse_price(txt) # None
             THEN [val |-> <<_parse_price(txt), txt>>, log |-> <<ev>>]
             ELSE LET r == FallbackFrom(dom, i + 1)
                  IN  [val |-> r.val, log |-> <<ev>> \o r.log]

_fetch_fallback_sku(dom) ==
    LET r == FallbackFrom(dom, 1)
    IN  [exc |-> NoExc,
         val |-> IF r.val[1] # None
                 THEN << [name       |-> DefaultSkuName,
                          stock      |-> DefaultStock,
                          stock_text |-> DefaultStockText,
                          price      |-> r.val[1],
                          price_text |-> r.val[2]] >>
                 ELSE <<>>,
         log |-> r.log]

(***************************************************************************)
(* Table flatteners  (crawler.py 172-282).  A Python dict is a sequence of *)
(* <<key, value>> pairs in insertion order.                                *)
(***************************************************************************)
HasKey(d, k) == \E n \in 1..Len(d) : d[n][1] = k

\* d[k] = v : a new key is appended, an existing key keeps its position
DictSet(d, k, v) ==
    IF HasKey(d, k)
    THEN [n \in 1..Len(d) |-> IF d[n][1] = k THEN <<k, v>> ELSE d[n]]
    ELSE Append(d, <<k, v>>)

\* A table element.  With a thead it has header cells and body rows of td
\* cells; without one it has rows of th cells and td cells.
NoTable == [found |-> FALSE, headers |-> <<>>, body |-> <<>>, rows |-> <<>>]
KvTable(rows) == [found |-> TRUE, headers |-> <<>>, body |-> <<>>, rows |-> rows]
HbTable(headers, body) == [found |-> TRUE, headers |-> headers, body |-> body, rows |-> <<>>]

\* table.find_elements("tr"): the header row counts as a tr
TrCount(t) == IF t.headers # <<>> THEN 1 + Len(t.body) ELSE Len(t.rows)

AnyThrow(cells) == \E n \in 1..Len(cells) : ~cells[n].ok

\* lines 193-198: for i, td in enumerate(first_row_tds), from position i on
RECURSIVE FirstRowInto(_, _, _, _)
FirstRowInto(attrs, cols, tds, i) ==
    IF i > Len(tds) THEN [attrs |-> attrs, thrown |-> FALSE]
    ELSE IF i > Len(cols) THEN FirstRowInto(attrs, cols, tds, i + 1)
    ELSE IF ~tds[i].ok THEN [attrs |-> attrs, thrown |-> TRUE]
    ELSE LET key == Strip(cols[i].text)
             val == Strip(tds[i].text)
         IN  FirstRowInto(
                 IF key # <<>> /\ val # <<>> /\ ~HasKey(attrs, key)
                 THEN Append(attrs, <<key, val>>) ELSE attrs,
                 cols, tds, i + 1)

\* lines 205-210: for i in range(limit), from position i on
RECURSIVE KvCellsInto(_, _, _)
KvCellsInto(attrs, row, i) ==
    IF i > Min(Len(row.ths), Len(row.tds)) THEN [attrs |-> attrs, thrown |-> FALSE]
    ELSE IF ~row.ths[i].ok \/ ~row.tds[i].ok THEN [attrs |-> attrs, thrown |-> TRUE]
    ELSE LET key == Strip(row.ths[i].text)
             val == Strip(row.tds[i].text)
         IN  KvCellsInto(
                 IF key # <<>> /\ val # <<>> THEN DictSet(attrs, key, val) ELSE attrs,
                 row, i + 1)

\* lines 201-210: for row in rows, from row n on
RECURSIVE KvRowsInto(_, _, _)
KvRowsInto(attrs, rows, n) ==
    IF n > Len(rows) THEN [attrs |-> attrs, thrown |-> FALSE]
    ELSE LET r == KvCellsInto(attrs, rows[n], 1)
         IN  IF r.thrown THEN r ELSE KvRowsInto(r.attrs, rows, n + 1)

\* a header/body pass that reads every body row, not the first only
RECURSIVE EveryBodyRowInto(_, _, _, _)
EveryBodyRowInto(attrs, cols, body, n) ==
    IF n > Len(body) THEN [attrs |-> attrs, thrown |-> FALSE]
    ELSE LET r == FirstRowInto(attrs, cols, body[n], 1)
         IN  IF r.thrown THEN r ELSE EveryBodyRowInto(r.attrs, cols, body, n + 1)

TableInto_every_body_row(attrs, t) ==
    IF ~t.found \/ TrCount(t) = 0 THEN [attrs |-> attrs, thrown |-> FALSE]
    ELSE IF t.headers # <<>>
    THEN IF AnyThrow(t.headers) THEN [attrs |-> attrs, thrown |-> TRUE]
         ELSE EveryBodyRowInto(attrs, t.headers, t.body, 1)
    ELSE KvRowsInto(attrs, t.rows, 1)

\* lines 176-214: one pass of the loop body on table t
TableInto(attrs, t) ==
    IF ~t.found \/ TrCount(t) = 0 THEN [attrs |-> attrs, thrown |-> FALSE]
    ELSE IF t.headers # <<>>
    THEN IF AnyThrow(t.headers) THEN [attrs |-> attrs, thrown |-> TRUE]
         ELSE IF t.body = <<>> THEN [attrs |-> attrs, thrown |-> FALSE]
         ELSE FirstRowInto(attrs, t.headers, t.body[1], 1)
    ELSE KvRowsInto(attrs, t.rows, 1)

\* for sel in selectors, from candidate i on; attrs is created once, before
\* the loop, and a candidate that throws does not reset it
RECURSIVE TableAsDictFrom(_, _, _, _)
TableAsDictFrom(chain, dom, attrs, i) ==
    IF i > Len(dom) THEN [exc |-> NoExc, val |-> attrs, log |-> <<>>]
    ELSE LET ev == Ev("find_element", chain, i)
             r  == TableInto(attrs, dom[i])
         IN  IF ~r.thrown /\ dom[i].found /\ TrCount(dom[i]) # 0 /\ r.attrs # <<>>
             THEN [exc |-> NoExc, val |-> r.attrs, log |-> <<ev>>]
             ELSE LET n == TableAsDictFrom(chain, dom, r.attrs, i + 1)
                  IN  [exc |-> NoExc, val |-> n.val, log |-> <<ev>> \o n.log]

_fetch_table_as_dict(chain, dom) == TableAsDictFrom(chain, dom, <<>>, 1)

\* sep.join(parts)
RECURSIVE Join(_, _)
Join(sep, parts) ==
    IF parts = <<>> THEN <<>>
    ELSE IF Len(parts) = 1 THEN parts[1]
    ELSE parts[1] \o sep \o Join(sep, Tail(parts))

\* lines 244-250: for i in range(limit), from position i on
RECURSIVE RowData(_, _, _, _)
RowData(acc, cols, tds, i) ==
    IF i > Min(Len(cols), Len(tds)) THEN [data |-> acc, thrown |-> FALSE]
    ELSE IF ~tds[i].ok THEN [data |-> acc, thrown |-> TRUE]
    ELSE LET key == Strip(cols[i].text)
             val == Strip(tds[i].text)
         IN  RowData(
                 IF key # <<>> /\ val # <<>>
                 THEN Append(acc, key \o <<":">> \o CollapseSpace(val)) ELSE acc,
                 cols, tds, i + 1)

\* a listing that stops after the first body row
BodyRowsInto_first_only(lines, cols, body, n) ==
    IF body = <<>> THEN [lines |-> lines, thrown |-> FALSE]
    ELSE LET r == RowData(<<>>, cols, body[1], 1)
         IN  IF r.thrown THEN [lines |-> lines, thrown |-> TRUE]
             ELSE [lines |-> IF r.data # <<>>
                             THEN Append(lines, <<"[">> \o Join(<<";", " ">>, r.data) \o <<"]">>)
                             ELSE lines,
                   thrown |-> FALSE]

\* lines 239-253: for row_idx, row in enumerate(body_rows), from row n on
RECURSIVE BodyRowsInto(_, _, _, _)
BodyRowsInto(lines, cols, body, n) ==
    IF n > Len(body) THEN [lines |-> lines, thrown |-> FALSE]
    ELSE LET r == RowData(<<>>, cols, body[n], 1)
         IN  IF r.thrown THEN [lines |-> lines, thrown |-> TRUE]
             ELSE BodyRowsInto(
                      IF r.data # <<>>
                      THEN Append(lines, <<"[">> \o Join(<<";", " ">>, r.data) \o <<"]">>)
                      ELSE lines,
                      cols, body, n + 1)

\* lines 226-263: one pass of the loop body on table t
RowsInto(lines, t) ==
    IF ~t.found \/ t.headers = <<>> THEN [lines |-> lines, thrown |-> FALSE]
    ELSE IF AnyThrow(t.headers) THEN [lines |-> lines, thrown |-> TRUE]
    ELSE BodyRowsInto(lines, t.headers, t.body, 1)

\* for sel in selectors, from candidate i on; result_lines is created once,
\* before the loop
RECURSIVE AllRowsFrom(_, _, _, _)
AllRowsFrom(chain, dom, lines, i) ==
    IF i > Len(dom) THEN [exc |-> NoExc, val |-> <<>>, log |-> <<>>]
    ELSE LET ev == Ev("find_element", chain, i)
             r  == RowsInto(lines, dom[i])
         IN  IF ~r.thrown /\ dom[i].found /\ dom[i].headers # <<>> /\ r.lines # <<>>
             THEN [exc |-> NoExc, val |-> Join(<<" ", "|", " ">>, r.lines), log |-> <<ev>>]
             ELSE LET n == AllRowsFrom(chain, dom, r.lines, i + 1)
                  IN  [exc |-> NoExc, val |-> n.val, log |-> <<ev>> \o n.log]

_fetch_all_rows_as_text(chain, dom) == AllRowsFrom(chain, dom, <<>>, 1)

\* The tables a page may show.  The characters "c" and "s" stand for two
\* column names, "r", "M", "b" and "L" for four cell values.
CellC == Found(<<"c">>)
CellS == Found(<<"s", " ">>)
CellR == Found(<<" ", "r">>)
CellM == Found(<<"M">>)
CellB == Found(<<"b">>)
CellL == Found(<<"L", " ", " ", "L">>)
CellEmpty == Found(<<" ">>)

\* rows of a key/value table: a th cell and a td cell
KvRow(k, v) == [ths |-> <<k>>, tds |-> <<v>>]
KvRows ==
    {KvRow(CellC, CellR), KvRow(CellC, CellB), KvRow(CellS, CellM),
     KvRow(CellS, Throw), KvRow(CellEmpty, CellM), KvRow(CellS, CellEmpty)}
\* body rows of a header/body table: two td cells
BodyRows ==
    {<<CellR, CellM>>, <<CellB, CellL>>, <<CellR, Throw>>, <<CellEmpty, CellM>>,
     <<CellEmpty, CellEmpty>>}
\* header rows: two named columns, or a named and an unnamed one
Headers == {<<CellC, CellS>>, <<CellC, CellEmpty>>}
Tables ==
    {KvTable(rs) : rs \in SeqsUpTo(KvRows, MaxRows)}
    \cup {HbTable(h, b) : h \in Headers, b \in SeqsUpTo(BodyRows, MaxRows)}
\* what the other matching candidate may show: a one-row table
LaterTables ==
    {KvTable(<<KvRow(CellS, CellM)>>), KvTable(<<KvRow(CellC, CellB)>>),
     HbTable(<<CellC, CellS>>, <<<<CellB, CellL>>>>)}
\* the documents for one of the two table chains: no candidate matches, one
\* does, or two do
TableDoms(chain) ==
    LET n == Len(COMMON_SELECTORS[chain])
    IN  {[i \in 1..n |-> NoTable]}
        \cup {[i \in 1..n |-> IF i = p THEN t ELSE NoTable] : p \in 1..n, t \in Tables}
        \cup UNION {{[i \in 1..n |-> IF i = p THEN t ELSE IF i = q THEN u ELSE NoTable]
                        : t \in Tables, u \in LaterTables}
                    : p \in 1..n, q \in 1..n}

\* lines 271-276
RECURSIVE SpecsList(_)
SpecsList(attrs) ==
    IF attrs = <<>> THEN <<>>
    ELSE <<attrs[1][1] \o <<":">> \o CollapseSpace(attrs[1][2])>> \o SpecsList(Tail(attrs))

_fetch_specs(dom) ==
    LET r == _fetch_table_as_dict("attributes_table", dom)
    IN  [exc |-> NoExc, val |-> Join(<<";", " ">>, SpecsList(r.val)), log |-> r.log]

_fetch_packaging(dom) == _fetch_all_rows_as_text("packaging_table", dom)

(***************************************************************************)
(* Session bootstrap  (crawler.py 560-586).  A URL is a sequence of words; *)
(* "x in url" is the test for a contiguous run of words.                   *)
(***************************************************************************)
AboutBlank   == <<"about:blank">>
RobotsUrl    == <<"https://", "www.", "1688.com", "/robots.txt">>
ProductUrl   == <<"https://", "detail.", "1688.com", "/offer/1.html">>
LoginUrl     == <<"https://", "login.", "1688.com", "/member/signin.htm">>
TaobaoLogin  == <<"https://", "login.", "taobao.com", "/member/login.jhtml">>
ElsewhereUrl == <<"https://", "www.", "example.com", "/">>
\* a product page whose query string names the login host
ProductUrlFromLogin ==
    <<"https://", "detail.", "1688.com", "/offer/1.html", "?from=", "login.", "1688.com">>

\* where the session may be before fetch_item is called
StartUrls == {AboutBlank, ProductUrl, ElsewhereUrl, LoginUrl}
\* where the browser may be after driver.get(url)
LandingUrls == {ProductUrl, LoginUrl, TaobaoLogin, ProductUrlFromLogin}

valid_keys == {"name", "value", "domain", "path", "expiry", "secure", "httpOnly", "sameSite"}

\* cookie objects a store may hold
CookiePlain   == [name |-> "sid", value |-> "1"]
CookieExtra   == [name |-> "tk", value |-> "2", domain |-> ".1688.com", storeId |-> "0", hostOnly |-> "no"]
CookieNoName  == [value |-> "3", path |-> "/"]
CookieForeign == [name |-> "t", value |-> "4", domain |-> ".taobao.com"]
SampleCookies == {CookiePlain, CookieExtra, CookieNoName, CookieForeign}

\* cookies.json: absent, unreadable, not JSON, a JSON object, or a JSON list
StoreMissing    == [exists |-> FALSE, readable |-> FALSE, kind |-> "none", cookies |-> <<>>]
StoreUnreadable == [exists |-> TRUE, readable |-> FALSE, kind |-> "none", cookies |-> <<>>]
StoreCorrupt    == [exists |-> TRUE, readable |-> TRUE, kind |-> "invalid", cookies |-> <<>>]
StoreObject     == [exists |-> TRUE, readable |-> TRUE, kind |-> "object", cookies |-> <<>>]
StoreList(cs)   == [exists |-> TRUE, readable |-> TRUE, kind |-> "list", cookies |-> cs]
Stores ==
    {StoreMissing, StoreUnreadable, StoreCorrupt, StoreObject}
    \cup {StoreList(cs) : cs \in SeqsUpTo(SampleCookies, MaxCookies)}

\* line 578
CookieDict(cookie) == [k \in (DOMAIN cookie) \cap valid_keys |-> cookie[k]]

\* driver.add_cookie(d) raises for a cookie without a name and for a cookie
\* of another domain than the current page's
SessionRejects(d) ==
    \/ "name" \notin DOMAIN d
    \/ ("domain" \in DOMAIN d /\ d["domain"] # ".1688.com")

\* lines 575-583: for cookie in cookies, from position n on
RECURSIVE InjectFrom(_, _)
InjectFrom(cookies, n) ==
    IF n > Len(cookies) THEN [calls |-> <<>>, log |-> <<>>]
    ELSE LET r == InjectFrom(cookies, n + 1)
             d == CookieDict(cookies[n])
         IN  [calls |-> <<[dict |-> d, accepted |-> ~SessionRejects(d)]>> \o r.calls,
              log   |-> <<Ev("add_cookie", "cookies.json", n)>> \o r.log]

\* the names the module can resolve: "json" is used at line 568
NameDefined(name) == name \in ModuleImports

\* which of the five kinds of cookies.json a store is
StoreTag(store) ==
    IF ~store.exists THEN "missing"
    ELSE IF ~store.readable THEN "unreadable"
    ELSE store.kind

\* a loader without the except clause of line 585: what goes wrong while the
\* file is read leaves the function
_load_cookies_unguarded(store, url) ==
    LET nothing == [exc |-> NoExc, calls |-> <<>>, log |-> <<>>, url |-> url]
        fails(e) == [exc |-> e, calls |-> <<>>, log |-> <<>>, url |-> url]
    IN  IF ~store.exists THEN nothing
        ELSE IF ~store.readable THEN fails("OSError")
        ELSE IF ~NameDefined("json") THEN fails("NameError")
        ELSE fails("JSONDecodeError")

\* _load_cookies on a session that is at `url`: the add_cookie calls made,
\* the other calls made, and the URL the session is left at.  No exception
\* leaves the function.
_load_cookies(store, url) ==
    LET nothing == [exc |-> NoExc, calls |-> <<>>, log |-> <<>>, url |-> url]
        go      == ~Contains(url, <<"1688.com">>)
        nav     == IF go THEN <<Ev("get", "robots.txt", 0)>> ELSE <<>>
        at      == IF go THEN RobotsUrl ELSE url
    IN  IF ~store.exists THEN nothing
        ELSE IF ~store.readable THEN nothing
        ELSE IF ~NameDefined("json") THEN nothing
        ELSE IF store.kind = "invalid" THEN nothing
        ELSE IF store.kind = "object"
             THEN [exc |-> NoExc, calls |-> <<>>, log |-> nav, url |-> at]
        ELSE LET r == InjectFrom(store.cookies, 1)
             IN  [exc |-> NoExc, calls |-> r.calls, log |-> nav \o r.log, url |-> at]

(***************************************************************************)
(* fetch_item  (crawler.py 589-666).                                       *)
(***************************************************************************)
\* a loop that runs once more
RetryRounds_plus1 == 6 + 1

RetryRounds == 6       \* range(6)
SleepSeconds == 5      \* time.sleep(5)

AntiBotRedirect     == "RuntimeError: redirected to the login page"
ExtractionExhausted == "RuntimeError: no title after the wait"

NoResult == [exc |-> NoExc, val |-> <<>>]
Returned(v) == [exc |-> NoExc, val |-> <<v>>]
Raised(e) == [exc |-> e, val |-> <<>>]

\* a check that forgets the second login host
IsLoginUrl_only1688(url) == Contains(url, <<"login.", "1688.com">>)

\* line 609
IsLoginUrl(url) ==
    \/ Contains(url, <<"login.", "1688.com">>)
    \/ Contains(url, <<"login.", "taobao.com">>)

\* a finally clause that quits whatever session it has
QuitLog_always == <<Ev("quit", "driver", 0)>>

\* lines 664-666: the finally clause
QuitLog == IF own_driver THEN <<Ev("quit", "driver", 0)>> ELSE <<>>

\* an end of fetch_item without the finally clause of lines 664-666
Finish_without_finally(res, tr) ==
    /\ pc' = "done"
    /\ result' = res
    /\ trace' = tr
    /\ quits' = quits

Finish(res, tr) ==
    /\ pc' = "done"
    /\ result' = res
    /\ trace' = tr \o QuitLog
    /\ quits' = IF own_driver THEN quits + 1 ELSE quits

\* no batch is under way
NoBatch == [active |-> FALSE, driver |-> FALSE, urls |-> <<>>, i |-> 0, products |-> <<>>,
            events |-> <<>>]

Init ==
    /\ pc = "idle"
    /\ op = ""
    /\ arg = <<>>
    /\ result = NoResult
    /\ trace = <<>>
    /\ own_driver = FALSE
    /\ title = <<>>
    /\ shipping = <<0, <<>>>>
    /\ rounds = 0
    /\ titleCalls = <<>>
    /\ current_url = AboutBlank
    /\ cookieCalls = <<>>
    /\ cookie_file = ""
    /\ batch = NoBatch
    /\ quits = 0

\* what _fetch_title and _fetch_shipping can come back with on some document
TitleResults == {_fetch_title(dom) : dom \in TitleDoms}
ShippingResults == {_fetch_shipping(dom) : dom \in ShippingDoms}

\* lines 597-604 for the call fetch_item(url, driver): create the session if
\* none was given, inject the cookies; `start` is where the session is
fetch_item_begin(url, given, start, store) ==
    LET ck  == _load_cookies(store, start)
        log == (IF given THEN <<>> ELSE <<Ev("create_driver", "driver", 0)>>) \o ck.log
    IN  /\ op' = "fetch_item"
        /\ own_driver' = ~given
        /\ arg' = [url |-> url, driver_given |-> given]
        /\ cookie_file' = StoreTag(store)
        /\ cookieCalls' = ck.calls
        /\ current_url' = ck.url
        /\ IF ck.exc # NoExc
           THEN /\ pc' = "done"
                /\ result' = Raised(ck.exc)
                /\ trace' = log \o (IF given THEN <<>> ELSE <<Ev("quit", "driver", 0)>>)
                /\ quits' = IF given THEN quits ELSE quits + 1
           ELSE /\ pc' = "navigate"
                /\ trace' = log
                /\ UNCHANGED <<result, quits>>
        /\ UNCHANGED <<title, shipping, rounds, titleCalls>>

\* fetch_item called on its own, with or without a session
fetch_item_bootstrap ==
    /\ pc = "idle"
    /\ \E given \in BOOLEAN, store \in Stores :
       \E start \in (IF given THEN StartUrls ELSE {AboutBlank}) :
           fetch_item_begin(ProductUrl, given, start, store)
    /\ UNCHANGED batch

\* a fetch that looks for the title before it navigates to the page
fetch_item_navigate_title_first ==
    /\ pc = "navigate"
    /\ \E landed \in LandingUrls, t \in TitleResults :
        LET nav == trace \o t.log \o <<Ev("get", "url", 0), Ev("current_url", "driver", 0)>>
        IN  /\ current_url' = landed
            /\ IF IsLoginUrl(landed)
               THEN /\ Finish(Raised(AntiBotRedirect), nav)
                    /\ UNCHANGED <<title, titleCalls>>
               ELSE /\ pc' = IF t.val # <<>> THEN "shipping" ELSE "waiting"
                    /\ title' = t.val
                    /\ titleCalls' = <<t.val>>
                    /\ trace' = nav
                    /\ UNCHANGED <<result, quits>>
    /\ cookie_file' = ""
    /\ UNCHANGED <<op, arg, own_driver, shipping, rounds, cookieCalls, batch>>

\* lines 606-616: navigate, check for the login redirect, look for the title
fetch_item_navigate ==
    /\ pc = "navigate"
    /\ \E landed \in LandingUrls, t \in TitleResults :
        LET nav == trace \o <<Ev("get", "url", 0), Ev("current_url", "driver", 0)>>
        IN  /\ current_url' = landed
            /\ IF IsLoginUrl(landed)
               THEN /\ Finish(Raised(AntiBotRedirect), nav)
                    /\ UNCHANGED <<title, titleCalls>>
               ELSE /\ pc' = IF t.val # <<>> THEN "shipping" ELSE "waiting"
                    /\ title' = t.val
                    /\ titleCalls' = <<t.val>>
                    /\ trace' = nav \o t.log
                    /\ UNCHANGED <<result, quits>>
    /\ cookie_file' = ""
    /\ UNCHANGED <<op, arg, own_driver, shipping, rounds, cookieCalls, batch>>

\* a loop without the break of line 625: it sleeps on after a title was found
fetch_item_retry_nobreak ==
    /\ pc = "waiting"
    /\ rounds < RetryRounds
    /\ \E t \in TitleResults :
            /\ title' = t.val
            /\ titleCalls' = Append(titleCalls, t.val)
            /\ trace' = trace \o <<Ev("sleep", "time", SleepSeconds)>> \o t.log
            /\ pc' = IF t.val # <<>> /\ rounds + 1 = RetryRounds THEN "shipping" ELSE "waiting"
    /\ rounds' = rounds + 1
    /\ UNCHANGED <<op, arg, result, own_driver, shipping, current_url, cookieCalls, cookie_file, batch, quits>>

\* lines 620-625: one iteration of the retry loop
fetch_item_retry ==
    /\ pc = "waiting"
    /\ rounds < RetryRounds
    /\ \E t \in TitleResults :
            /\ title' = t.val
            /\ titleCalls' = Append(titleCalls, t.val)
            /\ trace' = trace \o <<Ev("sleep", "time", SleepSeconds)>> \o t.log
            /\ pc' = IF t.val # <<>> THEN "shipping" ELSE "waiting"
    /\ rounds' = rounds + 1
    /\ UNCHANGED <<op, arg, result, own_driver, shipping, current_url, cookieCalls, cookie_file, batch, quits>>

\* lines 627-637: the loop ran out without a title
fetch_item_exhausted ==
    /\ pc = "waiting"
    /\ rounds = RetryRounds
    /\ title = <<>>
    /\ Finish(Raised(ExtractionExhausted),
              trace \o <<Ev("title", "driver", 0), Ev("page_source", "driver", 0),
                         Ev("current_url", "driver", 0)>>)
    /\ UNCHANGED <<op, arg, own_driver, title, shipping, rounds, titleCalls,
                   current_url, cookieCalls, cookie_file, batch>>

\* line 640
fetch_item_shipping ==
    /\ pc = "shipping"
    /\ pc' = "fields"
    /\ \E sh \in ShippingResults :
            /\ shipping' = sh.val
            /\ trace' = trace \o sh.log
    /\ UNCHANGED <<op, arg, result, own_driver, title, rounds, titleCalls,
                   current_url, cookieCalls, cookie_file, batch, quits>>

\* lines 653-662
Record(cat, specs, pack, skus) ==
    [url                |-> arg.url,
     product_title_main |-> title,
     shipping           |-> shipping[1],
     shipping_text      |-> shipping[2],
     category           |-> cat,
     specs              |-> specs,
     packaging          |-> pack,
     skus               |-> skus]

\* lines 643-662: category, specs, packaging, the SKU pass and the record
fetch_item_fields ==
    /\ pc = "fields"
    /\ \E cdom \in CategoryDoms :
        LET cat == _fetch_category(cdom)
        IN  IF cat.exc # NoExc
            THEN Finish(Raised(cat.exc), trace \o cat.log)
            ELSE \E adom \in TableDoms("attributes_table"),
                    pdom \in TableDoms("packaging_table"),
                    kdom \in SchemaDoms, fdom \in PriceDoms :
                 LET specs == _fetch_specs(adom)
                     pack  == _fetch_packaging(pdom)
                     sk    == _fetch_skus_by_schema(kdom)
                     fb    == _fetch_fallback_sku(fdom)
                     skus  == IF sk.val = <<>> THEN fb.val ELSE sk.val
                     fblog == IF sk.val = <<>> THEN fb.log ELSE <<>>
                 IN  Finish(Returned(Record(cat.val, specs.val, pack.val, skus)),
                            trace \o cat.log \o specs.log \o pack.log \o sk.log \o fblog)
    /\ UNCHANGED <<op, arg, own_driver, title, shipping, rounds, titleCalls,
                   current_url, cookieCalls, cookie_file, batch>>

(***************************************************************************)
(* CrawlerService  (service.py 13-85).  `batch.events` keeps, in order, the *)
(* session calls of the batch and the start and the end of every fetch.    *)
(***************************************************************************)
\* the k-th URL of a batch
BatchUrl(k) == <<"https://", "detail.", "1688.com", "/offer/", DigitChar(k), ".html">>

\* service.py 66-73
ToSku(raw_sku) ==
    [name       |-> raw_sku.name,
     price      |-> raw_sku.price,
     stock      |-> raw_sku.stock,
     price_text |-> raw_sku.price_text,
     stock_text |-> raw_sku.stock_text]

\* service.py 57-75: the Product built from the record of fetch_item
ToProduct(raw_data) ==
    [url           |-> raw_data.url,
     title         |-> raw_data.product_title_main,
     shipping_cost |-> raw_data.shipping,
     skus          |-> [n \in 1..Len(raw_data.skus) |-> ToSku(raw_data.skus[n])],
     fallback_data |-> raw_data]

\* the calls of a trace that create or quit a session
SessionCalls(tr) == SelectSeq(tr, LAMBDA e : e[1] \in {"create_driver", "quit"})

\* service.py 24-47: `with CrawlerService() as service`, then
\* service.fetch_products(urls)
CrawlerService_enter ==
    /\ pc = "idle"
    /\ pc' = "batch"
    /\ op' = "fetch_products"
    /\ \E n \in 0..MaxUrls :
        LET urls == [k \in 1..n |-> BatchUrl(k)]
        IN  /\ arg' = urls
            /\ batch' = [active |-> TRUE, driver |-> TRUE, urls |-> urls, i |-> 0,
                         products |-> <<>>,
                         events |-> <<Ev("create_driver", "driver", 0)>>]
    /\ current_url' = AboutBlank
    /\ UNCHANGED <<result, trace, own_driver, title, shipping, rounds, titleCalls,
                   cookieCalls, cookie_file, quits>>

\* service.py 49-55: the next URL of the loop, fetched on the service's session
fetch_products_next ==
    /\ pc = "batch"
    /\ batch.i < Len(batch.urls)
    /\ \E store \in Stores :
           fetch_item_begin(batch.urls[batch.i + 1], TRUE, current_url, store)
    /\ batch' = [batch EXCEPT !.events = Append(@, <<"start", "fetch_item", batch.i + 1>>)]

\* a loop whose except clause raises again: the batch ends at the first failure
fetch_products_collect_reraise ==
    /\ pc = "done"
    /\ op = "fetch_item"
    /\ batch.active
    /\ op' = "fetch_products"
    /\ arg' = batch.urls
    /\ pc' = IF result.exc = NoExc THEN "batch" ELSE "done"
    /\ result' = IF result.exc = NoExc THEN NoResult ELSE result
    /\ batch' = [batch EXCEPT
                    !.i = @ + 1,
                    !.products = IF result.exc = NoExc
                                 THEN Append(@, ToProduct(result.val[1])) ELSE @,
                    !.events = @ \o SessionCalls(trace)
                                 \o <<<<"end", IF result.exc = NoExc THEN "returned" ELSE "raised",
                                        batch.i + 1>>>>]
    /\ trace' = <<>>
    /\ title' = <<>>
    /\ shipping' = <<0, <<>>>>
    /\ rounds' = 0
    /\ titleCalls' = <<>>
    /\ UNCHANGED <<own_driver, current_url, cookieCalls, cookie_file, quits>>

\* service.py 55-83: fetch_item is over; its record becomes a Product, its
\* exception is caught and the loop goes on
fetch_products_collect ==
    /\ pc = "done"
    /\ op = "fetch_item"
    /\ batch.active
    /\ pc' = "batch"
    /\ op' = "fetch_products"
    /\ arg' = batch.urls
    /\ result' = NoResult
    /\ batch' = [batch EXCEPT
                    !.i = @ + 1,
                    !.products = IF result.exc = NoExc
                                 THEN Append(@, ToProduct(result.val[1])) ELSE @,
                    !.events = @ \o SessionCalls(trace)
                                 \o <<<<"end", IF result.exc = NoExc THEN "returned" ELSE "raised",
                                        batch.i + 1>>>>]
    /\ trace' = <<>>
    /\ title' = <<>>
    /\ shipping' = <<0, <<>>>>
    /\ rounds' = 0
    /\ titleCalls' = <<>>
    /\ UNCHANGED <<own_driver, current_url, cookieCalls, cookie_file, quits>>

\* an __exit__ that quits without looking at _driver
CrawlerService_exit_unguarded ==
    /\ batch' = [batch EXCEPT !.driver = FALSE, !.events = Append(@, Ev("quit", "driver", 0))]
    /\ quits' = quits + 1

\* service.py 32-35: __exit__ quits the session the service holds and clears it
CrawlerService_exit ==
    /\ batch' = IF batch.driver
                THEN [batch EXCEPT !.driver = FALSE,
                                   !.events = Append(@, Ev("quit", "driver", 0))]
                ELSE [batch EXCEPT !.events = Append(@, <<"__exit__", "no session", 0>>)]
    /\ quits' = IF batch.driver THEN quits + 1 ELSE quits

\* service.py 85 and 32-35: the loop is over, the products are returned and
\* the with-block quits the session
fetch_products_return ==
    /\ pc = "batch"
    /\ batch.i = Len(batch.urls)
    /\ pc' = "done"
    /\ result' = Returned(batch.products)
    /\ CrawlerService_exit
    /\ UNCHANGED <<op, arg, trace, own_driver, title, shipping, rounds, titleCalls,
                   current_url, cookieCalls, cookie_file>>

\* service.py 45-46: fetch_products on a service that was never entered
fetch_products_unentered ==
    /\ pc = "idle"
    /\ pc' = "refused"
    /\ op' = "fetch_products"
    /\ \E n \in 0..MaxUrls : arg' = [k \in 1..n |-> BatchUrl(k)]
    /\ result' = Raised("RuntimeError")
    /\ UNCHANGED <<trace, own_driver, title, shipping, rounds, titleCalls, current_url,
                   cookieCalls, cookie_file, batch, quits>>

\* service.py 52-53 and 32-35: the progress callback raises, outside the try
\* of the loop; the exception leaves the with-block, which quits the session
CrawlerService_body_raises ==
    /\ pc = "batch"
    /\ batch.i < Len(batch.urls)
    /\ pc' = "aborted"
    /\ result' = Raised("CallbackError")
    /\ CrawlerService_exit
    /\ UNCHANGED <<op, arg, trace, own_driver, title, shipping, rounds, titleCalls,
                   current_url, cookieCalls, cookie_file>>

\* the service is past its with-block
Exited == batch.active /\ op = "fetch_products" /\ pc \in {"done", "aborted", "closed"}

\* service.py 32-35: __exit__ called once more
CrawlerService_exit_again ==
    /\ Exited
    /\ pc # "closed"
    /\ pc' = "closed"
    /\ CrawlerService_exit
    /\ UNCHANGED <<op, arg, result, trace, own_driver, title, shipping, rounds, titleCalls,
                   current_url, cookieCalls, cookie_file>>

\* service.py 45-46: fetch_products on a service that was exited
fetch_products_after_exit ==
    /\ Exited
    /\ pc' = "refused"
    /\ result' = IF batch.driver THEN result ELSE Raised("RuntimeError")
    /\ batch' = [batch EXCEPT !.events = Append(@, <<"raise", "RuntimeError", 0>>)]
    /\ UNCHANGED <<op, arg, trace, own_driver, title, shipping, rounds, titleCalls,
                   current_url, cookieCalls, cookie_file, quits>>

(***************************************************************************)
(* The extractors called on their own, each on a fake document.            *)
(***************************************************************************)
Call(name, doc, r) ==
    /\ pc' = "done"
    /\ op' = name
    /\ arg' = doc
    /\ result' = [exc |-> r.exc, val |-> IF r.exc = NoExc THEN <<r.val>> ELSE <<>>]
    /\ trace' = r.log
    /\ UNCHANGED <<own_driver, title, shipping, rounds, titleCalls, current_url,
                   cookieCalls, cookie_file, batch, quits>>

call_fetch_title ==
    /\ pc = "idle"
    /\ \E dom \in TitleDoms : Call("_fetch_title", dom, _fetch_title(dom))

call_fetch_shipping ==
    /\ pc = "idle"
    /\ \E dom \in ShippingDoms : Call("_fetch_shipping", dom, _fetch_shipping(dom))

call_fetch_category ==
    /\ pc = "idle"
    /\ \E dom \in CategoryDoms : Call("_fetch_category", dom, _fetch_category(dom))

call_fetch_skus_by_schema ==
    /\ pc = "idle"
    /\ \E dom \in SchemaDoms :
        Call("_fetch_skus_by_schema", dom, _fetch_skus_by_schema(dom))

call_fetch_fallback_sku ==
    /\ pc = "idle"
    /\ \E dom \in PriceDoms : Call("_fetch_fallback_sku", dom, _fetch_fallback_sku(dom))

\* the texts handed to the two parsers
TextChars == {"1", "2", ".", ",", "-", "B", "Y"}
\* longer texts: a price with a thousands separator, a price after a
\* currency sign ("#") and before words, a stock between words, a marker
\* next to digits
TextThousands == <<"1", ",", "2", "3", "4", ".", "5", "6">>
TextCurrency == <<"#", "1", "2", ".", "5", "0", " ", "x">>
TextStock == <<"k", " ", "1", "2", "3", " ", "j", "4">>
TextMarkerDigits == <<"9", "B", "Y", "5">>
SampleTexts == {TextThousands, TextCurrency, TextStock, TextMarkerDigits}
Texts == SeqsUpTo(TextChars, MaxText) \cup SampleTexts

call_parse_price ==
    /\ pc = "idle"
    /\ \E text \in Texts :
        Call("_parse_price", text, [exc |-> NoExc, val |-> _parse_price(text), log |-> <<>>])

call_parse_stock ==
    /\ pc = "idle"
    /\ \E text \in Texts :
        Call("_parse_stock", text, [exc |-> NoExc, val |-> _parse_stock(text), log |-> <<>>])

call_fetch_table_as_dict ==
    /\ pc = "idle"
    /\ \E dom \in TableDoms("attributes_table") :
        Call("_fetch_table_as_dict", dom, _fetch_table_as_dict("attributes_table", dom))

call_fetch_all_rows_as_text ==
    /\ pc = "idle"
    /\ \E dom \in TableDoms("packaging_table") :
        Call("_fetch_all_rows_as_text", dom, _fetch_all_rows_as_text("packaging_table", dom))

call_load_cookies ==
    /\ pc = "idle"
    /\ \E store \in Stores, start \in StartUrls :
        LET r == _load_cookies(store, start)
        IN  /\ pc' = "done"
            /\ op' = "_load_cookies"
            /\ arg' = [store |-> store, start |-> start]
            /\ result' = [exc |-> r.exc, val |-> <<>>]
            /\ trace' = r.log
            /\ cookieCalls' = r.calls
            /\ current_url' = r.url
            /\ cookie_file' = StoreTag(store)
            /\ UNCHANGED <<own_driver, title, shipping, rounds, titleCalls, batch, quits>>

(***************************************************************************)
(* Pricing  (src/pricing).  A float is the exact fraction <<n, d>> in      *)
(* lowest terms, d > 0; None is <<>>; a text that float() cannot parse is  *)
(* <<"n/a">>.  A dict is a function from its keys; the Chinese keys of the *)
(* result of limited.py 43-55 are written in pinyin.                       *)
(***************************************************************************)
RECURSIVE Gcd(_, _)
Gcd(a, b) == IF b = 0 THEN a ELSE Gcd(b, a % b)

Abs(n) == IF n < 0 THEN 0 - n ELSE n

\* the float n / d, for d > 0
Frac(n, d) == LET g == Gcd(Abs(n), d) IN <<n \div g, d \div g>>

Zero == Frac(0, 1)
One == Frac(1, 1)
Plus(a, b) == Frac(a[1] * b[2] + b[1] * a[2], a[2] * b[2])
Minus(a, b) == Frac(a[1] * b[2] - b[1] * a[2], a[2] * b[2])
Times(a, b) == Frac(a[1] * b[1], a[2] * b[2])
\* a / b for b > 0, the only divisions the code reaches
Over(a, b) == Frac(a[1] * b[2], a[2] * b[1])
Less(a, b) == a[1] * b[2] < b[1] * a[2]
LessEq(a, b) == a[1] * b[2] <= b[1] * a[2]

\* int(x): the fraction is cut off, towards zero
int(x) == IF x[1] >= 0 THEN x[1] \div x[2] ELSE 0 - ((0 - x[1]) \div x[2])

\* round(x, 2): the nearest whole cent
round2(x) ==
    LET n == Abs(x[1]) * 100
        c == (2 * n + x[2]) \div (2 * x[2])
    IN  Frac(IF x[1] >= 0 THEN c ELSE 0 - c, 100)

\* charm pricing without the upgrade of lines 25-26
apply_charm_pricing_no_upgrade(price) ==
    IF LessEq(price, Zero)
    THEN Zero
    ELSE round2(Plus(Frac(int(price), 1), Frac(9, 10)))

\* psychology.py 3-28
apply_charm_pricing(price) ==
    IF LessEq(price, Zero)
    THEN Zero
    ELSE LET integer_part == int(price)
             target_price == Plus(Frac(integer_part, 1), Frac(9, 10))
         IN  round2(IF Less(target_price, price) THEN Plus(target_price, One) ELSE target_price)

DiscountOutOfRange == "discount must be between 0.5 and 1.0"      \* the message of line 25
CouponTooLarge == "coupon must not exceed half the selling price" \* the message of line 28
MarginOrFeeTooHigh == "margin or platform fee too high"           \* the message of line 98
NoValidPrice == "no valid price or cost"                          \* the message of line 104
NoValidCost == "no valid cost"                                    \* default.py 36
MarginPlusFeeTooHigh == "margin + platform fee too high"          \* default.py 47

\* an outcome of a pricing function: a dict, or an exception with its message
Dict(d) == [exc |-> NoExc, val |-> d, log |-> <<>>]
ValueError(msg) == [exc |-> "ValueError", val |-> msg, log |-> <<>>]

\* limited.py 8-55
calculate_limited_time_price(selling_price, instant_discount_coupon_price, limited_time_discount) ==
    IF ~(LessEq(Frac(1, 2), limited_time_discount) /\ LessEq(limited_time_discount, One))
    THEN ValueError(DiscountOutOfRange)
    ELSE IF Less(Over(selling_price, Frac(2, 1)), instant_discount_coupon_price)
    THEN ValueError(CouponTooLarge)
    ELSE LET max_coupon_amount == Plus(instant_discount_coupon_price, One)
             price_after_max_coupon == Plus(selling_price, max_coupon_amount)
             raw_price == Over(price_after_max_coupon, limited_time_discount)
             final_group_buy_price == apply_charm_pricing(raw_price)
         IN  Dict([selling_price |-> round2(selling_price),
                   maijia |-> selling_price,
                   lijianquan_jiage |-> instant_discount_coupon_price,
                   zuida_youhuiquan_jine |-> max_coupon_amount,
                   jiawan_zuida_youhuiquan_hou_de_jiage |-> price_after_max_coupon,
                   xianshi_xianliang_zhekou |-> limited_time_discount,
                   raw_calculated_price |-> round2(raw_price),
                   zuizhong_pindanjia |-> final_group_buy_price,
                   xianshi_xianliang_gou_jiage |-> final_group_buy_price,
                   suggested_price |-> final_group_buy_price])

\* d.get(k, default)
Get(d, k, default) == IF k \in DOMAIN d THEN d[k] ELSE default

Junk == <<"n/a">>
IsNumber(v) == Len(v) = 2
\* `v or 0.0`: None and 0.0 are falsy
OrZero(v) == IF v = None \/ (IsNumber(v) /\ v[1] = 0) THEN Zero ELSE v
\* float(v) inside try/except (ValueError, TypeError) with 0.0 as the way out
FloatOrZero(v) == IF IsNumber(v) THEN v ELSE Zero

\* an adapter that calls the calculation outside any try
limited_time_strategy_adapter_no_except(item, kwargs) ==
    calculate_limited_time_price(
        OrZero(Get(item, "selling_price", None)),
        Get(kwargs, "instant_discount_coupon_price", Zero),
        Get(kwargs, "limited_time_discount", One))

\* limited.py 58-116
limited_time_strategy_adapter(item, kwargs) ==
    LET price == FloatOrZero(OrZero(Get(item, "price", None)))
        shipping_ == FloatOrZero(Get(kwargs, "shipping", Zero))
        user_selling_price == OrZero(Get(item, "selling_price", None))
        target_margin == Get(kwargs, "target_margin", Zero)
        platform_fee == Get(kwargs, "platform_fee_pct", Frac(6, 1000))
        refund_rate == Get(kwargs, "refund_rate", Frac(20, 100))
        insurance == Get(kwargs, "shipping_insurance", Frac(8, 10))
        refund_loss == Times(shipping_, refund_rate)
        total_hard_cost == Plus(Plus(Plus(price, shipping_), insurance), refund_loss)
        denom == Minus(Minus(One, target_margin), platform_fee)
        auto == ~Less(Zero, user_selling_price)
        base_selling_price == IF auto THEN Over(total_hard_cost, denom) ELSE user_selling_price
        instant_coupon == Get(kwargs, "instant_discount_coupon_price", Zero)
        discount == Get(kwargs, "limited_time_discount", One)
    IN  IF auto /\ LessEq(denom, Zero)
        THEN Dict([error |-> MarginOrFeeTooHigh])
        ELSE IF LessEq(base_selling_price, Zero)
        THEN Dict([error |-> NoValidPrice])
        ELSE LET r == calculate_limited_time_price(base_selling_price, instant_coupon, discount)
             IN  IF r.exc = "ValueError" THEN Dict([error |-> r.val]) ELSE r

\* default.py 8-72
calculate_price(item, kwargs) ==
    LET base_cost == FloatOrZero(IF OrZero(Get(item, "price", None)) = Zero
                                 THEN Get(kwargs, "cost", Zero)
                                 ELSE Get(item, "price", None))
        shipping_cost == FloatOrZero(Get(kwargs, "shipping", Zero))
        shipping_insurance == Get(kwargs, "shipping_insurance", Frac(8, 10))
        platform_fee_pct == Get(kwargs, "platform_fee_pct", Frac(6, 100))
        target_margin_pct == Get(kwargs, "target_margin_pct", Frac(20, 100))
        extra_markup == Get(kwargs, "extra_markup", Zero)
        refund_rate == Get(kwargs, "refund_rate", Frac(20, 100))
        refund_loss == Times(shipping_cost, refund_rate)
        total_hard_cost == Plus(Plus(Plus(base_cost, shipping_cost), shipping_insurance), refund_loss)
        denom == Minus(Minus(One, target_margin_pct), platform_fee_pct)
        raw_price == Plus(Over(total_hard_cost, denom), extra_markup)
    IN  IF LessEq(total_hard_cost, Zero)
        THEN Dict([error |-> NoValidCost, suggested_price |-> Zero, selling_price |-> Zero])
        ELSE IF LessEq(denom, Zero)
        THEN Dict([error |-> MarginPlusFeeTooHigh, suggested_price |-> Zero, selling_price |-> Zero])
        ELSE Dict([raw_calculated_price |-> round2(raw_price),
                   total_hard_cost |-> round2(total_hard_cost),
                   base_cost |-> base_cost,
                   shipping_cost |-> shipping_cost,
                   platform_fee_pct |-> platform_fee_pct,
                   target_margin_pct |-> target_margin_pct,
                   refund_loss |-> round2(refund_loss),
                   extra_markup |-> extra_markup,
                   suggested_price |-> apply_charm_pricing(raw_price),
                   selling_price |-> round2(raw_price)] @@ item)

MaxPrice == 3      \* whole currency units of a price handed to the charm pricing

EmptyDict == <<>>
\* prices in whole cents: below zero, zero, every cent up to MaxPrice, and
\* the examples of psychology.py 13-16
CentPrices == {Frac(c, 100) : c \in ((0 - 2)..(MaxPrice * 100)) \cup {1200, 1230, 1285, 1295}}
SellingPrices == {Frac(10, 1), Frac(20, 1), Frac(129, 10)}
Coupons == {Zero, Frac(5, 1), Frac(7, 1), Frac(11, 1)}
Discounts == {Frac(4, 10), Frac(5, 10), Frac(8, 10), One, Frac(11, 10)}
Margins == {Frac(20, 100), Frac(30, 100), One}
\* the SKU dicts handed to a strategy
Items == {p @@ s : p \in {EmptyDict, [price |-> None], [price |-> Junk],
                          [price |-> Frac(10, 1)], [price |-> Frac(0 - 10, 1)]},
                   s \in {EmptyDict, [selling_price |-> Zero], [selling_price |-> Frac(20, 1)]}}
LimitedParams ==
    {c @@ m : c \in [instant_discount_coupon_price : {Zero, Frac(5, 1), Frac(11, 1)},
                     limited_time_discount : Discounts,
                     shipping : {Zero, Frac(5, 1)}],
              m \in {EmptyDict} \cup [target_margin : Margins]}
DefaultParams ==
    {c @@ m @@ x : c \in [cost : {Frac(10, 1), Frac(20, 1), Frac(50, 1)},
                          shipping : {Zero, Frac(5, 1)},
                          platform_fee_pct : {Frac(6, 100)}],
                   m \in [target_margin_pct : Margins],
                   x \in {EmptyDict, [extra_markup |-> Frac(2, 1)]}}

call_apply_charm_pricing ==
    /\ pc = "idle"
    /\ \E price \in CentPrices :
        Call("apply_charm_pricing", price, Dict(apply_charm_pricing(price)))

call_calculate_limited_time_price ==
    /\ pc = "idle"
    /\ \E s \in SellingPrices, c \in Coupons, d \in Discounts :
        Call("calculate_limited_time_price", <<s, c, d>>, calculate_limited_time_price(s, c, d))

call_limited_time_strategy_adapter ==
    /\ pc = "idle"
    /\ \E item \in Items, kwargs \in LimitedParams :
        Call("limited_time_strategy_adapter", [item |-> item, kwargs |-> kwargs],
             limited_time_strategy_adapter(item, kwargs))

call_calculate_price ==
    /\ pc = "idle"
    /\ \E item \in {EmptyDict, [price |-> Frac(30, 1)]}, kwargs \in DefaultParams :
        Call("calculate_price", [item |-> item, kwargs |-> kwargs], calculate_price(item, kwargs))

(***************************************************************************)
(* CalculationService.calculate_prices  (service.py 94-136).  The strategy *)
(* is one of the two strategies above or a stand-in that raises for the    *)
(* SKUs it is told to fail on.                                             *)
(***************************************************************************)
MaxProducts == 2   \* products handed to calculate_prices

SkuNames == <<"S1", "S2">>
\* the j-th SKU of a product (models.py 10-27); the second has no price and
\* brings extra data under the key "name"
SampleSku(j) ==
    [name          |-> SkuNames[((j - 1) % Len(SkuNames)) + 1],
     price         |-> IF j = 1 THEN Frac(10, 1) ELSE None,
     stock         |-> 5 * j,
     selling_price |-> Zero,
     extra_data    |-> IF j = 2 THEN [name |-> "other"] ELSE EmptyDict]
\* a product with n SKUs (models.py 31-46)
SampleProduct(k, n) ==
    [url |-> BatchUrl(k), title |-> <<"T">>, shipping_cost |-> Frac(5, 1),
     skus |-> [j \in 1..n |-> SampleSku(j)]]
ProductLists ==
    UNION {{[k \in 1..m |-> SampleProduct(k, ns[k])] : ns \in [1..m -> 0..MaxItems]}
           : m \in 0..MaxProducts}

\* the places <<product, SKU>> a stand-in strategy can fail on
Places == (1..MaxProducts) \X (1..MaxItems)
Strategies ==
    {[kind |-> "calculate_price", failing |-> {}, params |-> [cost |-> Frac(20, 1)]],
     [kind |-> "limited_time_strategy_adapter", failing |-> {},
      params |-> [instant_discount_coupon_price |-> Frac(5, 1),
                  limited_time_discount |-> Frac(8, 10), shipping |-> Zero]]}
    \cup {[kind |-> "stand-in", failing |-> f, params |-> EmptyDict]
            : f \in {{}, Places} \cup {{place} : place \in Places}}

StrategyFailed == "strategy failed"   \* str(e) of the stand-in's exception

\* strategy_func(item_data, **strategy_params), called for the SKU at place
strategy_func(strategy, place, item_data) ==
    CASE strategy.kind = "calculate_price" -> calculate_price(item_data, strategy.params)
      [] strategy.kind = "limited_time_strategy_adapter"
            -> limited_time_strategy_adapter(item_data, strategy.params)
      [] OTHER -> IF place \in strategy.failing
                  THEN [exc |-> "Exception", val |-> StrategyFailed, log |-> <<>>]
                  ELSE Dict([suggested_price |-> Zero])

\* service.py 102-134: the row of one SKU
RowOf(product, sku, strategy, place) ==
    LET item_data == sku.extra_data @@
                     [product_url        |-> product.url,
                      product_title_main |-> product.title,
                      name               |-> sku.name,
                      price              |-> sku.price,
                      stock              |-> sku.stock,
                      shipping           |-> product.shipping_cost,
                      selling_price      |-> sku.selling_price]
        r == strategy_func(strategy, place, item_data)
        res == IF r.exc # NoExc THEN [error |-> r.val] @@ item_data ELSE r.val
        keyed == [product_url |-> product.url, name |-> sku.name] @@ res
        stocked == IF "stock" \in DOMAIN keyed THEN keyed ELSE keyed @@ [stock |-> sku.stock]
    IN  IF "overall_shipping_cost" \in DOMAIN stocked
        THEN stocked
        ELSE stocked @@ [overall_shipping_cost |-> product.shipping_cost]

\* the rows of the SKUs j.. of the k-th product
RECURSIVE SkuRowsFrom(_, _, _, _)
SkuRowsFrom(products, strategy, k, j) ==
    IF j > Len(products[k].skus)
    THEN <<>>
    ELSE <<RowOf(products[k], products[k].skus[j], strategy, <<k, j>>)>>
         \o SkuRowsFrom(products, strategy, k, j + 1)

\* a loop that leaves out the SKUs the strategy raised for
RECURSIVE RowsFrom_dropping_failures(_, _, _)
RowsFrom_dropping_failures(products, strategy, k) ==
    IF k > Len(products)
    THEN <<>>
    ELSE SelectSeq(SkuRowsFrom(products, strategy, k, 1), LAMBDA row : "error" \notin DOMAIN row)
         \o RowsFrom_dropping_failures(products, strategy, k + 1)

\* service.py 98-136: the rows of the products k.., in order
RECURSIVE RowsFrom(_, _, _)
RowsFrom(products, strategy, k) ==
    IF k > Len(products)
    THEN <<>>
    ELSE SkuRowsFrom(products, strategy, k, 1) \o RowsFrom(products, strategy, k + 1)

calculate_prices(products, strategy) ==
    [exc |-> NoExc, val |-> RowsFrom(products, strategy, 1), log |-> <<>>]

call_calculate_prices ==
    /\ pc = "idle"
    /\ \E products \in ProductLists, strategy \in Strategies :
        Call("calculate_prices", [products |-> products, strategy |-> strategy],
             calculate_prices(products, strategy))

Next ==
    \/ fetch_item_bootstrap
    \/ fetch_item_navigate
    \/ fetch_item_retry
    \/ fetch_item_exhausted
    \/ fetch_item_shipping
    \/ fetch_item_fields
    \/ call_fetch_title
    \/ call_fetch_shipping
    \/ call_fetch_category
    \/ call_fetch_skus_by_schema
    \/ call_fetch_fallback_sku
    \/ call_parse_price
    \/ call_parse_stock
    \/ call_fetch_table_as_dict
    \/ call_fetch_all_rows_as_text
    \/ call_load_cookies
    \/ call_apply_charm_pricing
    \/ call_calculate_limited_time_price
    \/ call_limited_time_strategy_adapter
    \/ call_calculate_price
    \/ call_calculate_prices
    \/ CrawlerService_enter
    \/ fetch_products_next
    \/ fetch_products_collect
    \/ fetch_products_return
    \/ fetch_products_unentered
    \/ CrawlerService_body_raises
    \/ CrawlerService_exit_again
    \/ fetch_products_after_exit

Spec == Init /\ [][Next]_vars

(***************************************************************************)
(* Properties.                                                             *)
(***************************************************************************)
\* number of events of the trace that are the given call on the given chain
Count(tr, call, chain) ==
    Cardinality({i \in 1..Len(tr) : tr[i][1] = call /\ tr[i][2] = chain})

\* calls that resolve a selector, and the recovery loop's sleep
LookupCalls == {"find_element", "find_elements", "wait"}
NoLookups(tr) == \A i \in 1..Len(tr) : tr[i][1] \notin LookupCalls
OnlyTitleLookups(tr) ==
    \A i \in 1..Len(tr) : tr[i][1] \in LookupCalls => tr[i][2] = "product_title"
Sleeps(tr) == Count(tr, "sleep", "time")
\* every _fetch_title call starts with the first candidate
TitleAttempts(tr) ==
    Cardinality({i \in 1..Len(tr) : tr[i] = <<"find_element", "product_title", 1>>})

InFetchItem == op = "fetch_item"
LandedOnLogin ==
    \/ Contains(current_url, <<"login.", "1688.com">>)
    \/ Contains(current_url, <<"login.", "taobao.com">>)
AllEmpty(calls) == \A i \in 1..Len(calls) : calls[i] = <<>>

\* C1: when the URL read right after navigation contains a login domain,
\* fetch_item has ended with the anti-bot error, and up to that point it made
\* no title lookup, no other selector lookup and no sleep.
C1_LoginRedirectFailsAtOnce ==
    (InFetchItem /\ pc \notin {"idle", "navigate"} /\ LandedOnLogin)
        => /\ pc = "done"
           /\ result.exc = AntiBotRedirect
           /\ titleCalls = <<>>
           /\ NoLookups(trace)
           /\ Sleeps(trace) = 0

C1_Witness ==
    /\ InFetchItem /\ pc = "done"
    /\ current_url = TaobaoLogin
    /\ result.exc = AntiBotRedirect

\* C2: as long as every title extraction has come back empty, fetch_item is
\* in the retry loop having slept once per extraction after the first, at
\* most 6 times; with the 6th round empty the only exit is the
\* extraction-exhausted error, raised after exactly 6 sleeps and 7
\* extractions, with no lookup other than the title's.
C2_AlwaysEmptyExhaustsAfterSix ==
    (InFetchItem /\ titleCalls # <<>> /\ AllEmpty(titleCalls))
        => /\ pc \in {"waiting", "done"}
           /\ Sleeps(trace) = Len(titleCalls) - 1
           /\ TitleAttempts(trace) = Len(titleCalls)
           /\ Sleeps(trace) <= 6
           /\ OnlyTitleLookups(trace)
           /\ (pc = "waiting" /\ Sleeps(trace) = 6) => ENABLED fetch_item_exhausted
           /\ (pc = "waiting" /\ Sleeps(trace) < 6) => ~ENABLED fetch_item_exhausted
           /\ pc = "done" => /\ result.exc = ExtractionExhausted
                             /\ Sleeps(trace) = 6
                             /\ Len(titleCalls) = 7

C2_Witness ==
    /\ InFetchItem /\ pc = "done"
    /\ Len(titleCalls) = 7 /\ AllEmpty(titleCalls)
    /\ result.exc = ExtractionExhausted

\* C3: once a title extraction has come back non-empty, it is the last one
\* made (say the k-th): the k-1 before it were empty, k-1 sleeps were made,
\* neither fatal error is raised, local `title` is the k-th call's value
\* while the later extractors run, and a record that is returned carries it.
C3_SuccessOnKthAttempt ==
    (InFetchItem /\ \E i \in 1..Len(titleCalls) : titleCalls[i] # <<>>)
        => LET k == Len(titleCalls)
           IN  /\ titleCalls[k] # <<>>
               /\ AllEmpty(SubSeq(titleCalls, 1, k - 1))
               /\ k <= 7
               /\ TitleAttempts(trace) = k
               /\ Sleeps(trace) = k - 1
               /\ title = titleCalls[k]
               /\ pc \in {"shipping", "fields", "done"}
               /\ result.exc \notin {AntiBotRedirect, ExtractionExhausted}
               /\ (pc # "shipping") => Count(trace, "find_elements", "shipping") > 0
               /\ (pc = "done" /\ result.exc = NoExc)
                      => result.val[1].product_title_main = titleCalls[k]

\* the spec's case: three empty extractions, then a title on the fourth
C3_Witness ==
    /\ InFetchItem /\ pc = "fields"
    /\ Len(titleCalls) = 4
    /\ title = <<"U">>
    /\ Sleeps(trace) = 3

GotTitle == InFetchItem /\ pc = "done" /\ ~LandedOnLogin /\ title # <<>>

\* C4: a finished fetch_item raised nothing but one of the two fatal errors,
\* and it returned a record whenever navigation did not end on a login URL
\* and a title was obtained.
C4_OnlyFatalCasesAbort ==
    (InFetchItem /\ pc = "done")
        => /\ result.exc \in {NoExc, AntiBotRedirect, ExtractionExhausted}
           /\ (~LandedOnLogin /\ title # <<>>) => result.exc = NoExc

\* the text a category candidate yields, <<>> when the lookup throws
YieldedText(o) == IF o.ok THEN CollapseSpace(Strip(o.text)) ELSE <<>>

\* C5: _fetch_category returns a non-empty text, the "unknown" sentinel when
\* no candidate yields text, and raises nothing; the category of a returned
\* record is never empty.
C5_CategoryNeverEmpty ==
    /\ (op = "_fetch_category" /\ pc = "done")
           => /\ result.exc = NoExc
              /\ result.val[1] # <<>>
              /\ (\A i \in DOMAIN arg : YieldedText(arg[i]) = <<>>) => result.val[1] = Unknown
    /\ (InFetchItem /\ pc = "done" /\ result.exc = NoExc)
           => result.val[1].category # <<>>

\* schema s would match the document: its wrapper is found and holds an item
WouldMatch(dom, s) == dom[s].wrapper /\ dom[s].ok /\ dom[s].items # <<>>
\* no selector of schema s was resolved
SchemaUntouched(tr, s) ==
    \A i \in 1..Len(tr) :
        tr[i][2] \in {"sku_wrapper", "sku_item", "sku_name", "price", "stock"} => tr[i][3] # s

\* C6: when an earlier schema a and a later schema b would both match, the
\* list _fetch_skus_by_schema returns has one entry per item of the first
\* matching schema, built from that schema's items, and no selector of b
\* was resolved.
C6_SchemaPriorityOrder ==
    (op = "_fetch_skus_by_schema" /\ pc = "done")
        => \A a, b \in 1..Len(PAGE_SCHEMAS) :
            (a < b /\ WouldMatch(arg, a) /\ WouldMatch(arg, b))
                => LET first == CHOOSE s \in 1..Len(PAGE_SCHEMAS) :
                                    WouldMatch(arg, s) /\ \A t \in 1..(s - 1) : ~WouldMatch(arg, t)
                       out   == result.val[1]
                   IN  /\ result.exc = NoExc
                       /\ Len(out) = Len(arg[first].items)
                       /\ \A n \in 1..Len(out) : out[n] = ParseItem(arg[first].items[n], n - 1)
                       /\ SchemaUntouched(trace, b)

C6_Witness ==
    /\ op = "_fetch_skus_by_schema" /\ pc = "done"
    /\ WouldMatch(arg, 1) /\ WouldMatch(arg, 2)
    /\ Len(arg[1].items) = 1 /\ Len(arg[2].items) = 2
    /\ Len(result.val[1]) = 1

\* what the trace says about the SKU pass of fetch_item
SchemaPassRan == Count(trace, "wait", "sku_wrapper") > 0
FallbackRan == Count(trace, "find_element", "single_price") > 0
SchemaItemsRead == Count(trace, "find_element", "sku_name")

\* C7: a fetch_item that got a title ends with a record and no error; the
\* schema pass ran; the fallback chain ran exactly when the schema pass read
\* no item; after the fallback the record holds at most one SKU, the
\* synthesized one.
C7_FallbackIffSchemaEmpty ==
    GotTitle
        => /\ result.exc = NoExc
           /\ SchemaPassRan
           /\ FallbackRan <=> (SchemaItemsRead = 0)
           /\ FallbackRan
                => /\ Len(result.val[1].skus) <= 1
                   /\ \A n \in 1..Len(result.val[1].skus) :
                          result.val[1].skus[n].name = DefaultSkuName

TriedUpTo(call, chain, k) == [i \in 1..k |-> <<call, chain, i>>]

\* candidate i of each chain resolves: it yields a text the field can use
TitleResolves(dom, i) == dom[i].ok /\ Strip(dom[i].text) # <<>>
CategoryResolves(dom, i) == i \in DOMAIN dom /\ YieldedText(dom[i]) # <<>>
ShippingResolves(dom, i) == dom[i].ok /\ ShippingElems(dom[i].elems, 1)[1] = "hit"
PriceResolves(dom, i) == dom[i].ok /\ _parse_price(Strip(dom[i].text)) # None

\* exactly candidate k resolves
OnlyKth(R(_, _), dom, n, k) == \A i \in 1..n : R(dom, i) <=> i = k
NoneOf(R(_, _), dom, n) == \A i \in 1..n : ~R(dom, i)

C9_Title ==
    (op = "_fetch_title" /\ pc = "done")
        => LET n == Len(COMMON_SELECTORS.product_title)
           IN  /\ \A k \in 1..n :
                    OnlyKth(TitleResolves, arg, n, k)
                        => /\ result.val[1] = Strip(arg[k].text)
                           /\ trace = TriedUpTo("find_element", "product_title", k)
               /\ NoneOf(TitleResolves, arg, n)
                    => /\ result.val[1] = <<>>
                       /\ trace = TriedUpTo("find_element", "product_title", n)

C9_Shipping ==
    (op = "_fetch_shipping" /\ pc = "done")
        => LET n == Len(COMMON_SELECTORS.shipping)
           IN  /\ \A k \in 1..n :
                    OnlyKth(ShippingResolves, arg, n, k)
                        => /\ result.val[1][1] = ShippingElems(arg[k].elems, 1)[2]
                           /\ result.val[1][2] = ShippingElems(arg[k].elems, 1)[3]
                           /\ trace = TriedUpTo("find_elements", "shipping", k)
               /\ NoneOf(ShippingResolves, arg, n)
                    => /\ result.val[1] = <<0, <<>>>>
                       /\ trace = TriedUpTo("find_elements", "shipping", n)

C9_SinglePrice ==
    (op = "_fetch_fallback_sku" /\ pc = "done")
        => LET n == Len(COMMON_SELECTORS.single_price)
           IN  /\ \A k \in 1..n :
                    OnlyKth(PriceResolves, arg, n, k)
                        => /\ Len(result.val[1]) = 1
                           /\ result.val[1][1].price_text = Strip(arg[k].text)
                           /\ result.val[1][1].price = _parse_price(Strip(arg[k].text))
                           /\ trace = TriedUpTo("find_element", "single_price", k)
               /\ NoneOf(PriceResolves, arg, n)
                    => /\ result.val[1] = <<>>
                       /\ trace = TriedUpTo("find_element", "single_price", n)

C9_Category ==
    (op = "_fetch_category" /\ pc = "done")
        => /\ result.exc = NoExc
           /\ \A k \in DOMAIN arg :
                OnlyKth(CategoryResolves, arg, Len(arg), k)
                    => /\ result.val[1] = YieldedText(arg[k])
                       /\ trace = TriedUpTo("find_element", "category", k)

\* C9: for each of the four scalar chains (title, category, shipping, single
\* price), when only the k-th candidate resolves, the candidates 1..k were
\* tried in list order and no other, and the k-th candidate's value is
\* returned; when none resolves, all were tried and the default is returned.
C9_ChainsStopAtFirstHit == C9_Title /\ C9_Shipping /\ C9_SinglePrice /\ C9_Category

\* the three chains the configuration does define
C9_DefinedChains == C9_Title /\ C9_Shipping /\ C9_SinglePrice

\* the fields of a stored cookie that _load_cookies may pass on
AllowedFields(cookie) ==
    (DOMAIN cookie)
        \cap {"name", "value", "domain", "path", "expiry", "secure", "httpOnly", "sameSite"}

\* C10: when the store holds a list of cookie objects, add_cookie was called
\* once per stored cookie, in store order, each time with exactly the
\* allowed fields of that cookie; a rejected cookie stops nothing.
C10_EveryCookieInjected ==
    (op = "_load_cookies" /\ pc = "done" /\ arg.store.kind = "list")
        => /\ Len(cookieCalls) = Len(arg.store.cookies)
           /\ Count(trace, "add_cookie", "cookies.json") = Len(arg.store.cookies)
           /\ \A n \in 1..Len(cookieCalls) :
                /\ DOMAIN cookieCalls[n].dict = AllowedFields(arg.store.cookies[n])
                /\ \A f \in DOMAIN cookieCalls[n].dict :
                       cookieCalls[n].dict[f] = arg.store.cookies[n][f]

\* positions of the trace where the given call was made
Positions(tr, call) == {i \in 1..Len(tr) : tr[i][1] = call}
\* every event of the first call comes before every event of the second
AllBefore(tr, first, second) ==
    \A i \in Positions(tr, first), j \in Positions(tr, second) : i < j
OnTargetDomain(url) == Contains(url, <<"1688.com">>)

\* C11: _load_cookies on a store that lists cookies injects them with the
\* session on the 1688.com domain: when the session started elsewhere, the
\* robots.txt navigation comes before the first add_cookie; in fetch_item
\* every add_cookie comes before the navigation to the product URL.
C11_InjectOnDomainBeforeNavigation ==
    /\ (op = "_load_cookies" /\ pc = "done" /\ arg.store.kind = "list"
            /\ arg.store.cookies # <<>>)
           => /\ Positions(trace, "add_cookie") # {}
              /\ OnTargetDomain(current_url)
              /\ ~OnTargetDomain(arg.start)
                    => /\ Count(trace, "get", "robots.txt") = 1
                       /\ AllBefore(trace, "get", "add_cookie")
    /\ InFetchItem
           => \A i \in Positions(trace, "add_cookie") :
                  \A j \in 1..Len(trace) : trace[j] = Ev("get", "url", 0) => i < j

\* what can go wrong while the cookie file is read
CookieErrors == {"OSError", "NameError", "JSONDecodeError"}

\* C12: _load_cookies raises nothing, whatever cookies.json is; fetch_item
\* leaves it at the navigation step, never with an error of the loader, and
\* past that step it has navigated to the product URL.
C12_CookieTroubleNeverAborts ==
    /\ (op = "_load_cookies" /\ pc = "done") => result.exc = NoExc
    /\ (InFetchItem /\ cookie_file # "") => pc = "navigate"
    /\ (InFetchItem /\ pc = "done") => result.exc \notin CookieErrors
    /\ (InFetchItem /\ pc \notin {"idle", "navigate"})
           => /\ cookie_file = ""
              /\ Count(trace, "get", "url") = 1

\* fetch_item is past a loader that met a cookie file that is not JSON
C12_Witness ==
    /\ InFetchItem /\ pc = "navigate"
    /\ cookie_file = "invalid"
    /\ result.exc = NoExc

\* the fetches of the batch that have started, ended, raised and returned
Started == {e[3] : e \in {batch.events[n] : n \in 1..Len(batch.events)} \cap
                          {<<"start", "fetch_item", k>> : k \in 1..Len(batch.urls)}}
Ended(how) == {k \in 1..Len(batch.urls) :
                   \E n \in 1..Len(batch.events) : batch.events[n] = <<"end", how, k>>}
BatchDone == batch.active /\ pc = "done" /\ op = "fetch_products"
\* the URLs whose fetch returned a record, in input order
RECURSIVE ReturnedUrls(_)
ReturnedUrls(k) ==
    IF k > Len(batch.urls) THEN <<>>
    ELSE (IF k \in Ended("returned") THEN <<batch.urls[k]>> ELSE <<>>) \o ReturnedUrls(k + 1)

\* C13: a batch that is over raised nothing and attempted every URL; a fetch
\* that raised added no product and the fetches after it were still made;
\* the returned list holds the products of the fetches that returned, in
\* input order.
C13_BatchSurvivesFailures ==
    /\ batch.active
           => /\ Len(batch.products) = Cardinality(Ended("returned") \cap 1..batch.i)
              /\ Ended("raised") \cup Ended("returned") = 1..batch.i
              /\ Ended("raised") \cap Ended("returned") = {}
    /\ BatchDone
           => /\ result.exc = NoExc
              /\ Started = 1..Len(batch.urls)
              /\ Ended("raised") \cup Ended("returned") = 1..Len(batch.urls)
              /\ result.val[1] = batch.products
              /\ [n \in 1..Len(batch.products) |-> batch.products[n].url] = ReturnedUrls(1)

\* a batch of two URLs is over; the fetch of the first raised
C13_Witness ==
    /\ BatchDone
    /\ Len(batch.urls) = 2
    /\ 1 \in Ended("raised")
    /\ 2 \in Started
    /\ result.exc = NoExc

\* the events of a batch of n fetches of which k are over, the next one
\* possibly started: create_driver, then start 1, end 1, start 2, end 2, ...
IsEnd(e, k) == e \in {<<"end", "raised", k>>, <<"end", "returned", k>>}
InOrder(ev, k, started) ==
    /\ Len(ev) = 1 + 2 * k + (IF started THEN 1 ELSE 0)
    /\ ev[1] = Ev("create_driver", "driver", 0)
    /\ \A j \in 1..k : ev[2 * j] = <<"start", "fetch_item", j>> /\ IsEnd(ev[2 * j + 1], j)
    /\ started => ev[2 * k + 2] = <<"start", "fetch_item", k + 1>>

\* C14: in a batch the fetches start and end one after the other in input
\* order; the session is created once, before the first fetch, and quit
\* once, after the last; a fetch_item under way in a batch owns no session
\* and has neither created nor quit one.
C14_OneSessionOneUrlAtATime ==
    batch.active
        => /\ pc = "batch" => InOrder(batch.events, batch.i, FALSE)
           /\ (InFetchItem /\ pc # "batch")
                 => /\ InOrder(batch.events, batch.i, TRUE)
                    /\ arg.url = batch.urls[batch.i + 1]
                    /\ ~own_driver
                    /\ SessionCalls(trace) = <<>>
                    /\ quits = 0
           /\ BatchDone
                 => /\ batch.i = Len(batch.urls)
                    /\ InOrder(SubSeq(batch.events, 1, Len(batch.events) - 1), batch.i, FALSE)
                    /\ batch.events[Len(batch.events)] = Ev("quit", "driver", 0)
                    /\ quits = 1

\* a batch of two URLs is over
C14_Witness ==
    /\ BatchDone
    /\ Len(batch.urls) = 2
    /\ batch.i = 2
    /\ quits = 1

\* the first schema that would match the document, 0 when none would
Winner(dom) ==
    IF \E s \in 1..Len(PAGE_SCHEMAS) : WouldMatch(dom, s)
    THEN CHOOSE s \in 1..Len(PAGE_SCHEMAS) :
             WouldMatch(dom, s) /\ \A t \in 1..(s - 1) : ~WouldMatch(dom, t)
    ELSE 0

\* C15: for the first matching schema, _fetch_skus_by_schema returns one
\* record per item in document order; a failed name lookup on the n-th item
\* gives the name "SKU_<n>", a failed price lookup gives empty price_text
\* and no price, a failed stock lookup gives empty stock_text and stock 0;
\* a lookup that succeeds gives its stripped text; no later schema is tried.
C15_OneRecordPerItem ==
    (op = "_fetch_skus_by_schema" /\ pc = "done" /\ Winner(arg) # 0)
        => LET w     == Winner(arg)
               items == arg[w].items
               out   == result.val[1]
           IN  /\ result.exc = NoExc
               /\ Len(out) = Len(items)
               /\ \A n \in 1..Min(Len(out), Len(items)) :
                    /\ out[n].name = IF items[n].name.ok THEN Strip(items[n].name.text)
                                     ELSE <<"S", "K", "U", "_">> \o Str(n)
                    /\ out[n].price_text = IF items[n].price.ok THEN Strip(items[n].price.text)
                                           ELSE <<>>
                    /\ out[n].stock_text = IF items[n].stock.ok THEN Strip(items[n].stock.text)
                                           ELSE <<>>
                    /\ ~items[n].price.ok => out[n].price = None
                    /\ ~items[n].stock.ok => out[n].stock = 0
               /\ \A t \in (w + 1)..Len(PAGE_SCHEMAS) : SchemaUntouched(trace, t)
               /\ Count(trace, "find_element", "sku_name") = Len(items)

\* the first schema holds an item whose price lookup fails, then an item
\* whose name lookup fails
C15_Witness ==
    /\ op = "_fetch_skus_by_schema" /\ pc = "done"
    /\ Winner(arg) = 1
    /\ arg[1].items = <<ItemNoPrice, ItemNoName>>
    /\ Len(result.val[1]) = 2
    /\ result.val[1][2].name = <<"S", "K", "U", "_", "2">>
    /\ result.val[1][1].price = None

\* what one candidate table yields on its own: its pairs, or its row groups;
\* nothing when one of its lookups throws
DictYield(t) == LET r == TableInto(<<>>, t) IN IF r.thrown THEN <<>> ELSE r.attrs
LinesYield(t) == LET r == RowsInto(<<>>, t) IN IF r.thrown THEN <<>> ELSE r.lines
FirstOf(P) == CHOOSE i \in P : \A j \in P : i <= j

\* C16: each flattener returns the data of one candidate table, the first
\* in list order that yields anything on its own, having tried the
\* candidates up to that one and no other; it returns the empty result when
\* none yields anything.
C16_OneTableOnly ==
    /\ (op = "_fetch_table_as_dict" /\ pc = "done")
           => LET hits == {i \in DOMAIN arg : DictYield(arg[i]) # <<>>}
              IN  /\ result.val[1] = IF hits = {} THEN <<>> ELSE DictYield(arg[FirstOf(hits)])
                  /\ trace = TriedUpTo("find_element", "attributes_table",
                                       IF hits = {} THEN Len(arg) ELSE FirstOf(hits))
    /\ (op = "_fetch_all_rows_as_text" /\ pc = "done")
           => LET hits == {i \in DOMAIN arg : LinesYield(arg[i]) # <<>>}
              IN  /\ result.val[1] = IF hits = {} THEN <<>>
                                     ELSE Join(<<" ", "|", " ">>, LinesYield(arg[FirstOf(hits)]))
                  /\ trace = TriedUpTo("find_element", "packaging_table",
                                       IF hits = {} THEN Len(arg) ELSE FirstOf(hits))

\* the document shows one table, at one candidate, and no lookup on it throws
Shows(dom) == {i \in DOMAIN dom : dom[i].found}
NoThrowIn(t) ==
    /\ ~AnyThrow(t.headers)
    /\ \A n \in 1..Len(t.body) : ~AnyThrow(t.body[n])
    /\ \A n \in 1..Len(t.rows) : ~AnyThrow(t.rows[n].ths) /\ ~AnyThrow(t.rows[n].tds)
OneSoundTable(dom) == Cardinality(Shows(dom)) = 1 /\ NoThrowIn(dom[FirstOf(Shows(dom))])
TheTable(dom) == dom[FirstOf(Shows(dom))]

\* the value a dict holds for a key
ValueOf(d, k) == d[CHOOSE n \in 1..Len(d) : d[n][1] = k][2]
\* row n of a key/value table is a pair that counts: key and value not empty
Counts(rows, n) == Strip(rows[n].ths[1].text) # <<>> /\ Strip(rows[n].tds[1].text) # <<>>

\* C17: for one key/value table, every key of a pair that counts is in the
\* dict with the value of its first such pair in row order, and the dict
\* has no other key.
C17_FirstOccurrenceWins ==
    (op = "_fetch_table_as_dict" /\ pc = "done" /\ OneSoundTable(arg)
        /\ TheTable(arg).headers = <<>>)
        => LET rows == TheTable(arg).rows
               out  == result.val[1]
           IN  /\ \A n \in 1..Len(rows) :
                     (Counts(rows, n)
                        /\ \A m \in 1..(n - 1) :
                               ~(Counts(rows, m) /\ Strip(rows[m].ths[1].text)
                                                      = Strip(rows[n].ths[1].text)))
                       => /\ HasKey(out, Strip(rows[n].ths[1].text))
                          /\ ValueOf(out, Strip(rows[n].ths[1].text)) = Strip(rows[n].tds[1].text)
               /\ \A k \in 1..Len(out) :
                     \E n \in 1..Len(rows) :
                         Counts(rows, n) /\ out[k][1] = Strip(rows[n].ths[1].text)

\* "col:value" for the cells of a body row from column i on: cells with an
\* empty column name or an empty value are skipped
RECURSIVE PairsOf(_, _, _)
PairsOf(cols, tds, i) ==
    IF i > Len(cols) \/ i > Len(tds) THEN <<>>
    ELSE (IF Strip(cols[i].text) # <<>> /\ Strip(tds[i].text) # <<>>
          THEN <<Strip(cols[i].text) \o <<":">> \o CollapseSpace(Strip(tds[i].text))>>
          ELSE <<>>) \o PairsOf(cols, tds, i + 1)
\* one bracketed group per body row from row n on that has a pair left
RECURSIVE GroupsOf(_, _, _)
GroupsOf(cols, body, n) ==
    IF n > Len(body) THEN <<>>
    ELSE (IF PairsOf(cols, body[n], 1) # <<>>
          THEN <<<<"[">> \o Join(<<";", " ">>, PairsOf(cols, body[n], 1)) \o <<"]">>>>
          ELSE <<>>) \o GroupsOf(cols, body, n + 1)

\* the table of the example: columns c and s, rows (r, M) and (b, L L)
ExampleTable == HbTable(<<CellC, CellS>>, <<<<CellR, CellM>>, <<CellB, CellL>>>>)
ExampleText ==
    <<"[", "c", ":", "r", ";", " ", "s", ":", "M", "]", " ", "|", " ",
      "[", "c", ":", "b", ";", " ", "s", ":", "L", " ", "L", "]">>

KeysOf(d) == {d[n][1] : n \in 1..Len(d)}

\* C19: for one table, _fetch_table_as_dict takes the pairs of a table with
\* a header row from its first body row only, one per column with a name
\* and a value, and the pairs of a table without a header row from its
\* th/td rows.
C19_ShapeDetectedPerTable ==
    (op = "_fetch_table_as_dict" /\ pc = "done" /\ OneSoundTable(arg))
        => LET t   == TheTable(arg)
               out == result.val[1]
           IN  IF t.headers # <<>>
               THEN /\ t.body = <<>> => out = <<>>
                    /\ t.body # <<>>
                         => /\ KeysOf(out) = {Strip(t.headers[i].text) :
                                                i \in {j \in 1..Min(Len(t.headers), Len(t.body[1])) :
                                                          /\ Strip(t.headers[j].text) # <<>>
                                                          /\ Strip(t.body[1][j].text) # <<>>}}
                            /\ \A i \in 1..Min(Len(t.headers), Len(t.body[1])) :
                                   HasKey(out, Strip(t.headers[i].text))
                                       => ValueOf(out, Strip(t.headers[i].text))
                                              = Strip(t.body[1][i].text)
               ELSE /\ KeysOf(out) = {Strip(t.rows[n].ths[1].text) :
                                          n \in {m \in 1..Len(t.rows) : Counts(t.rows, m)}}
                    /\ \A k \in 1..Len(out) :
                           \E n \in 1..Len(t.rows) :
                               /\ out[k][1] = Strip(t.rows[n].ths[1].text)
                               /\ out[k][2] = Strip(t.rows[n].tds[1].text)

\* a header/body table with two different body rows gave the pairs of the
\* first row only
C19_Witness ==
    /\ op = "_fetch_table_as_dict" /\ pc = "done"
    /\ OneSoundTable(arg)
    /\ TheTable(arg) = ExampleTable
    /\ result.val[1] = <<<<(<<"c">>), (<<"r">>)>>, <<(<<"s">>), (<<"M">>)>>>>

HasDigit(text) == \E i \in 1..Len(text) : text[i] \in Digits

\* C20: on every text _parse_price returns no value or a number >= 0 and
\* _parse_stock returns an integer >= 0, and neither raises; the empty text
\* and a text without a digit give no price (unless it holds the
\* free-shipping marker) and stock 0; a text with a digit gives a price; a
\* digit run followed by a lone "." or "," gives the number of the digit run.
C20_ParsersAreTotal ==
    /\ (op = "_parse_price" /\ pc = "done")
           => /\ result.exc = NoExc
              /\ result.val[1] = None \/ (Len(result.val[1]) = 1 /\ result.val[1][1] >= 0)
              /\ arg = <<>> => result.val[1] = None
              /\ (~HasDigit(arg) /\ ~Contains(arg, FreeShippingMarker)) => result.val[1] = None
              /\ HasDigit(arg) => result.val[1] # None
              /\ arg \in {<<"1", "2", ".">>, <<"1", "2", ",">>}
                    => result.val[1] = Some(12 * PriceScale)
    /\ (op = "_parse_stock" /\ pc = "done")
           => /\ result.exc = NoExc
              /\ result.val[1] \in Nat
              /\ ~HasDigit(arg) => result.val[1] = 0
              /\ arg \in {<<"1", "2", ".">>, <<"1", "2", ",">>} => result.val[1] = 12

\* a digit run followed by a lone point was parsed
C20_Witness ==
    /\ op = "_parse_price" /\ pc = "done"
    /\ arg = <<"-", "2", ".">>
    /\ result.val[1] = Some(2 * PriceScale)

\* the digits of the groups ",ddd" that follow position j - 1
RECURSIVE Groups(_, _)
Groups(text, j) ==
    IF j <= Len(text) /\ text[j] = "," /\ Len(DigitRun(text, j + 1)) = 3
    THEN DigitRun(text, j + 1) \o Groups(text, j + 4)
    ELSE <<>>
\* the first numeric substring of a text with a digit: its integer digits
\* (thousands groups included), its fraction digits, and whether every
\* comma in it separates thousands and the fraction fits the scale
Numeric(text) ==
    LET i    == FirstDigit(text)
        d1   == DigitRun(text, i)
        g    == Groups(text, i + Len(d1))
        next == i + Len(d1) + 4 * (Len(g) \div 3)
        frac == IF next <= Len(text) /\ text[next] = "." THEN DigitRun(text, next + 1) ELSE <<>>
    IN  [int  |-> d1 \o g,
         frac |-> frac,
         sound |-> ~(next <= Len(text) /\ text[next] = ",") /\ Len(frac) <= FracDigits]
NumericValue(text) ==
    LET n == Numeric(text)
    IN  IntOf(n.int) * PriceScale + IntOf(n.frac) * Pow10(FracDigits - Len(n.frac))

\* C21: _parse_price returns 0.0 for a text with the free-shipping marker,
\* digits or not; no value for a text without a digit; otherwise the value
\* of the first numeric substring, thousands separators and fraction
\* included.
C21_FirstNumberWithThousands ==
    (op = "_parse_price" /\ pc = "done")
        => /\ Contains(arg, FreeShippingMarker) => result.val[1] = Some(0)
           /\ (~Contains(arg, FreeShippingMarker) /\ ~HasDigit(arg)) => result.val[1] = None
           /\ (~Contains(arg, FreeShippingMarker) /\ HasDigit(arg) /\ Numeric(arg).sound)
                 => result.val[1] = Some(NumericValue(arg))

\* the value of a run of digits
RECURSIVE Decimal(_)
Decimal(ds) == IF ds = <<>> THEN 0 ELSE 10 * Decimal(SubSeq(ds, 1, Len(ds) - 1)) + DigitVal(ds[Len(ds)])

\* C22: _parse_stock returns the value of the run of digits that starts at
\* the first digit of the text and ends before the next character that is
\* no digit, and 0 for a text without a digit.
C22_FirstDigitRun ==
    (op = "_parse_stock" /\ pc = "done")
        => /\ result.exc = NoExc
           /\ ~HasDigit(arg) => result.val[1] = 0
           /\ HasDigit(arg)
                 => \E i \in 1..Len(arg), j \in 1..Len(arg) :
                        /\ i <= j
                        /\ \A k \in 1..(i - 1) : arg[k] \notin Digits
                        /\ \A k \in i..j : arg[k] \in Digits
                        /\ j = Len(arg) \/ arg[j + 1] \notin Digits
                        /\ result.val[1] = Decimal(SubSeq(arg, i, j))

\* the stock between words was read, the later digit left alone
C22_Witness ==
    /\ op = "_parse_stock" /\ pc = "done"
    /\ arg = TextStock
    /\ result.val[1] = 123

\* the place of a session call in the order of the steps of fetch_item
StepRank(tr, i) ==
    LET e == tr[i]
        afterDiagnosis == \E k \in 1..(i - 1) : tr[k] = Ev("title", "driver", 0)
    IN  CASE e[1] = "create_driver" -> 0
          [] e[1] = "add_cookie" \/ e = Ev("get", "robots.txt", 0) -> 1
          [] e = Ev("get", "url", 0) -> 2
          [] e[1] = "current_url" /\ ~afterDiagnosis -> 3
          [] e[2] = "product_title" \/ e[1] = "sleep" -> 4
          [] e[1] \in {"title", "page_source"} \/ (e[1] = "current_url" /\ afterDiagnosis) -> 5
          [] e[2] = "shipping" -> 6
          [] e[2] = "category" -> 7
          [] e[2] = "attributes_table" -> 8
          [] e[2] = "packaging_table" -> 9
          [] e[2] \in {"sku_wrapper", "sku_item", "price", "stock"} -> 10
          [] e[2] = "single_price" -> 11
          [] e[1] = "quit" -> 12
          [] OTHER -> 13

\* the steps of the run so far, the closing quit left out
StepsDone(tr) == {i \in 1..Len(tr) : tr[i][1] # "quit"}

\* the last step a run may have reached when it ended with this outcome
LastStepOf(exc) ==
    CASE exc = AntiBotRedirect -> 3
      [] exc = ExtractionExhausted -> 5
      [] exc = "KeyError" -> 7
      [] OTHER -> 11

WithinOneCent(a, b) == Less(Minus(a, b), Frac(1, 100)) /\ Less(Minus(b, a), Frac(1, 100))

\* the inputs calculate_limited_time_price accepts
ValidLimitedInput(s, c, d) == LessEq(Frac(1, 2), d) /\ LessEq(d, One) /\ LessEq(c, Over(s, Frac(2, 1)))

\* C24: for a discount in [0.5, 1.0] and a coupon of at most half the selling
\* price, the final group-buy price of calculate_limited_time_price is within
\* 0.01 of (selling_price + coupon + 1) / discount; (10, 5, 0.5) gives 32.0
\* and (20, 7, 0.8) gives 35.0.
C24_GroupBuyPriceFormula ==
    (op = "calculate_limited_time_price" /\ pc = "done"
        /\ ValidLimitedInput(arg[1], arg[2], arg[3]))
        => /\ result.exc = NoExc
           /\ WithinOneCent(result.val[1].zuizhong_pindanjia,
                            Over(Plus(Plus(arg[1], arg[2]), One), arg[3]))

\* the price the formula of the default strategy's test expects
ExpectedDefaultPrice(kwargs) ==
    round2(Over(Plus(Plus(kwargs.cost, kwargs.shipping), Get(kwargs, "extra_markup", Zero)),
                Times(Minus(One, kwargs.platform_fee_pct), Minus(One, kwargs.target_margin_pct))))

\* C25: calculate_price with an empty item returns a suggested_price within
\* 0.01 of (cost + shipping + extra_markup) /
\* ((1 - platform_fee_pct) * (1 - target_margin_pct)) rounded to 2 decimals.
C25_DefaultPriceFormula ==
    (op = "calculate_price" /\ pc = "done" /\ arg.item = EmptyDict
        /\ Less(arg.kwargs.target_margin_pct, One))
        => /\ result.exc = NoExc
           /\ WithinOneCent(result.val[1].suggested_price, ExpectedDefaultPrice(arg.kwargs))

\* C26: apply_charm_pricing returns 0.0 for a price of zero or less; for a
\* price above zero in whole cents the result ends in .9, is not below the
\* price, exceeds it by less than 1.0, and is a fixed point of the function.
C26_CharmPricing ==
    (op = "apply_charm_pricing" /\ pc = "done")
        => LET price == arg
               r == result.val[1]
           IN  /\ result.exc = NoExc
               /\ LessEq(price, Zero) => r = Zero
               /\ Less(Zero, price)
                     => /\ r[2] = 10 /\ r[1] % 10 = 9
                        /\ LessEq(price, r)
                        /\ Less(Minus(r, price), One)
                        /\ apply_charm_pricing(r) = r

\* 12.95 lies above 12.90 and was taken to the next step, 13.90
C26_Witness ==
    /\ op = "apply_charm_pricing" /\ pc = "done"
    /\ arg = Frac(1295, 100)
    /\ result.val[1] = Frac(139, 10)

\* the base selling price the adapter works from: the selling price given
\* with the item when it is above zero, else none
UserPrice(item) == OrZero(Get(item, "selling_price", None))
DerivesPrice(item) == ~Less(Zero, UserPrice(item))
MarginPlusFee(kwargs) == Plus(Get(kwargs, "target_margin", Zero), Get(kwargs, "platform_fee_pct", Frac(6, 1000)))
HardCost(item, kwargs) ==
    Plus(Plus(Plus(FloatOrZero(OrZero(Get(item, "price", None))), kwargs.shipping), Frac(8, 10)),
         Times(kwargs.shipping, Frac(20, 100)))
BasePrice(item, kwargs) ==
    IF DerivesPrice(item)
    THEN Over(HardCost(item, kwargs), Minus(One, MarginPlusFee(kwargs)))
    ELSE UserPrice(item)
Refused(r) == r.exc = NoExc /\ "error" \in DOMAIN r.val[1] /\ "suggested_price" \notin DOMAIN r.val[1]

\* what C27 says of calculate_limited_time_price itself
RejectsExactlyInvalid ==
    (op = "calculate_limited_time_price" /\ pc = "done")
        => IF ValidLimitedInput(arg[1], arg[2], arg[3])
           THEN result.exc = NoExc /\ "suggested_price" \in DOMAIN result.val[1]
           ELSE result.exc = "ValueError"

\* C27 as stated: calculate_limited_time_price raises ValueError for a
\* discount outside [0.5, 1.0] and for a coupon above half the selling price
\* and returns a price otherwise; the adapter raises nothing, and for a
\* rejected input, a base selling price of zero or less, and margin + fee
\* >= 1 its result has an "error" entry and no suggested price.
C27_AdapterRefuses_AnyMargin ==
    /\ RejectsExactlyInvalid
    /\ (op = "limited_time_strategy_adapter" /\ pc = "done")
          => /\ result.exc = NoExc
             /\ LessEq(One, MarginPlusFee(arg.kwargs)) => Refused(result)
             /\ (Less(MarginPlusFee(arg.kwargs), One)
                  /\ (\/ LessEq(BasePrice(arg.item, arg.kwargs), Zero)
                      \/ ~ValidLimitedInput(BasePrice(arg.item, arg.kwargs),
                                            arg.kwargs.instant_discount_coupon_price,
                                            arg.kwargs.limited_time_discount)))
                   => Refused(result)

\* C27, amended: as above, with margin + fee >= 1 refused when the base
\* selling price is derived from the cost, that is when the item brings no
\* selling price above zero.
C27_AdapterRefuses ==
    /\ RejectsExactlyInvalid
    /\ (op = "limited_time_strategy_adapter" /\ pc = "done")
          => /\ result.exc = NoExc
             /\ (DerivesPrice(arg.item) /\ LessEq(One, MarginPlusFee(arg.kwargs))) => Refused(result)
             /\ ((DerivesPrice(arg.item) => Less(MarginPlusFee(arg.kwargs), One))
                  /\ (\/ LessEq(BasePrice(arg.item, arg.kwargs), Zero)
                      \/ ~ValidLimitedInput(BasePrice(arg.item, arg.kwargs),
                                            arg.kwargs.instant_discount_coupon_price,
                                            arg.kwargs.limited_time_discount)))
                   => Refused(result)

\* a coupon above half the given selling price: the rejection of the
\* calculation came back as an "error" entry
C27_Witness ==
    /\ op = "limited_time_strategy_adapter" /\ pc = "done"
    /\ UserPrice(arg.item) = Frac(20, 1)
    /\ arg.kwargs.instant_discount_coupon_price = Frac(11, 1)
    /\ arg.kwargs.limited_time_discount = One
    /\ Refused(result)
    /\ result.val[1].error = CouponTooLarge

\* C28: fetch_item quits the session when it created it, once and as its
\* last call, however the run ends; it never quits a session it was given,
\* and no session is quit while the run is under way.
C28_QuitsOwnSessionOnly ==
    op = "fetch_item"
        => /\ pc # "done" => (quits = 0 /\ Count(trace, "quit", "driver") = 0)
           /\ (pc = "done" /\ own_driver)
                 => /\ ~arg.driver_given
                    /\ Count(trace, "create_driver", "driver") = 1
                    /\ Count(trace, "quit", "driver") = 1
                    /\ trace[Len(trace)] = Ev("quit", "driver", 0)
                    /\ quits = 1
           /\ (pc = "done" /\ ~own_driver)
                 => /\ arg.driver_given
                    /\ Count(trace, "create_driver", "driver") = 0
                    /\ Count(trace, "quit", "driver") = 0
                    /\ quits = 0

\* a run on its own session was sent to the login page: the session was quit
C28_Witness ==
    /\ op = "fetch_item" /\ pc = "done" /\ own_driver
    /\ result.exc = AntiBotRedirect
    /\ quits = 1

\* a run on a session it was given ran out of attempts: the session was left open
C28_WitnessGiven ==
    /\ op = "fetch_item" /\ pc = "done" /\ ~own_driver /\ ~batch.active
    /\ result.exc = ExtractionExhausted
    /\ quits = 0

\* the calls of fetch_item a service has started
Fetches(events) == {i \in 1..Len(events) : events[i][1] = "start"}
\* the position of the quit of the service's session, 0 when there is none
QuitAt(events) ==
    IF \E i \in 1..Len(events) : events[i] = Ev("quit", "driver", 0)
    THEN CHOOSE i \in 1..Len(events) : events[i] = Ev("quit", "driver", 0)
    ELSE 0

\* C29: a CrawlerService holds a session only between __enter__ and
\* __exit__: fetch_products before __enter__ or after __exit__ raises
\* RuntimeError and starts no fetch; __exit__ quits the session once and
\* clears it, also when the body of the with-block raised; a second
\* __exit__ quits nothing.
C29_SessionOnlyInsideWith ==
    /\ batch.driver
          <=> (batch.active
               /\ ~(op = "fetch_products" /\ pc \in {"done", "aborted", "closed", "refused"}))
    /\ batch.driver => (quits = 0 /\ QuitAt(batch.events) = 0)
    /\ op = "fetch_products"
        => /\ pc = "batch" => batch.driver
           /\ (pc = "refused" /\ ~batch.active)
                 => /\ result.exc = "RuntimeError"
                    /\ batch.events = <<>> /\ trace = <<>> /\ quits = 0
           /\ (batch.active /\ ~batch.driver)
                 => /\ quits = 1
                    /\ Count(batch.events, "quit", "driver") = 1
                    /\ \A i \in Fetches(batch.events) : i < QuitAt(batch.events)
           /\ (pc = "aborted") => result.exc = "CallbackError"
           /\ (pc = "refused" /\ batch.active)
                 => /\ result.exc = "RuntimeError"
                    /\ batch.events[Len(batch.events)] = <<"raise", "RuntimeError", 0>>

\* the body of the with-block raised before the second URL, the session was
\* quit, __exit__ was called again and fetch_products was then refused
C29_Witness ==
    /\ op = "fetch_products" /\ pc = "refused" /\ batch.active
    /\ batch.i = 1 /\ Len(batch.urls) = 2
    /\ quits = 1
    /\ Count(batch.events, "__exit__", "no session") = 1
    /\ result.exc = "RuntimeError"

\* the places of the SKUs of the products, product by product
RECURSIVE PlacesInOrder(_, _)
PlacesInOrder(products, k) ==
    IF k > Len(products)
    THEN <<>>
    ELSE [j \in 1..Len(products[k].skus) |-> <<k, j>>] \o PlacesInOrder(products, k + 1)

\* C30: calculate_prices returns one row for every SKU of the products, in
\* the order of the products and, within a product, of its SKUs; every row
\* has the product_url and the name of its own SKU; the row of a SKU the
\* strategy raised for has an "error" entry, and the rows of the other SKUs
\* are there all the same.
C30_OneRowPerSku ==
    (op = "calculate_prices" /\ pc = "done")
        => LET rows == result.val[1]
               places == PlacesInOrder(arg.products, 1)
           IN  /\ result.exc = NoExc
               /\ Len(rows) = Len(places)
               /\ \A n \in 1..Len(places) :
                     LET product == arg.products[places[n][1]]
                         sku == product.skus[places[n][2]]
                     IN  /\ rows[n].product_url = product.url
                         /\ rows[n].name = sku.name
                         /\ (arg.strategy.kind = "stand-in" /\ places[n] \in arg.strategy.failing)
                               => ("error" \in DOMAIN rows[n] /\ rows[n].error = StrategyFailed)
                         /\ (arg.strategy.kind = "stand-in" /\ places[n] \notin arg.strategy.failing)
                               => ("error" \notin DOMAIN rows[n] /\ "suggested_price" \in DOMAIN rows[n])

\* two products of two SKUs each; the strategy raised for the second SKU of
\* the first product only, and the four rows are there in order
C30_Witness ==
    /\ op = "calculate_prices" /\ pc = "done"
    /\ Len(arg.products) = 2
    /\ Len(arg.products[1].skus) = 2 /\ Len(arg.products[2].skus) = 2
    /\ arg.strategy.kind = "stand-in" /\ arg.strategy.failing = {<<1, 2>>}
    /\ Len(result.val[1]) = 4
    /\ "error" \in DOMAIN result.val[1][2]
    /\ "error" \notin DOMAIN result.val[1][3]
    /\ result.val[1][3].product_url = BatchUrl(2)

====
